---- MODULE Spec2Model ----
(***************************************************************************)
(* A model of the derived-metrics core of SymbiosisFA:                     *)
(*   - FundamentalFlowMatrix (src/src/falaw/core/math/matrix.py): the 8x8  *)
(*     flow matrix, its construction and its set_flow / get_flow;          *)
(*   - ChaosGuidanceField (src/src/falaw/core/fields/chaos_field.py):      *)
(*     assess_chaos, check_kunzhuan_required, perform_kunzhuan and the     *)
(*     kunzhuan_history log.                                               *)
(*   - the calculators behind DataSource (core/math/target.py, tension.py, *)
(*     expansion.py, indirect.py and DataSource.compute_primal_excitation) *)
(*     as functions of their arguments;                                    *)
(*   - the DataSource singleton (core/data_source.py) and the fields that  *)
(*     hold it, and the entities of models/entities.py.                    *)
(*                                                                         *)
(* Numbers.  The code computes in floating point; the model computes the   *)
(* same formulas exactly.  A matrix row is a vector of integer numerators  *)
(* n over one positive denominator d (entry j is n[j]/d), kept in lowest   *)
(* terms.  Field values and excitations are integers in hundredths         *)
(* (Unit = 1.0), a primal residue is in units of 1/Unit^2 and a guidance   *)
(* urgency in units of 1/(10*Unit^2), so that every product and sum of the *)
(* code is an integer.                                                     *)
(***************************************************************************)
EXTENDS Integers, Sequences, FiniteSets, TLC

VARIABLES
    matrix,            \* FundamentalFlowMatrix.matrix: row index -> [n, d]
    setCount,          \* number of set_flow calls made so far
    lastSet,           \* arguments of the most recent set_flow call, or None
    flowRead,          \* what get_flow returned since the last set_flow, or None
    arg,               \* the caller's arguments of the evaluation under study
    hashSeed,          \* the process's string-hash seed (fixes set iteration order)
    assessment,        \* the ChaosAssessment the caller holds, or None
    lastOp,            \* the operation of the field called last
    current_chaos,     \* ChaosGuidanceField.current_chaos
    kunzhuan_history,  \* ChaosGuidanceField.kunzhuan_history
    lastCheck,         \* what check_kunzhuan_required returned last, or None
    lastRecord,        \* what perform_kunzhuan returned last, or None
    call,              \* the call under study: its name and arguments
    result,            \* what that call returned, or None while it has not run
    power_matrices,    \* IndirectInfluenceCalculator.power_matrices, or None
                       \* while no calculator is built
    DATA_SOURCE,       \* data_source._DATA_SOURCE: None or a reference to an instance
    instances,         \* the DataSource objects created so far, in order
    fields,            \* the fields constructed so far, each with its self.data
    individuals,       \* the Individual objects: id -> its attributes
    collective,        \* the Collective object, or None
    steps              \* number of entity operations made so far

vars == <<matrix, setCount, lastSet, flowRead, arg, hashSeed, assessment, lastOp,
          current_chaos, kunzhuan_history, lastCheck, lastRecord, call, result,
          power_matrices, DATA_SOURCE, instances, fields, individuals, collective,
          steps>>

calcVars == <<call, result, power_matrices>>
sourceVars == <<DATA_SOURCE, instances, fields>>
entityVars == <<individuals, collective, steps>>
matrixVars == <<matrix, setCount, lastSet, flowRead>>
chaosVars == <<arg, hashSeed, assessment, lastOp,
               current_chaos, kunzhuan_history, lastCheck, lastRecord>>

\* Python's None (a record, so that it compares with the records it stands in for)
None == [none |-> TRUE]

(***************************************************************************)
(* Bounds of the model.                                                    *)
(***************************************************************************)
MaxSets == 1
\* set_flow is explored while the row's exact denominator stays below this
\* (the products of two such numbers fit TLC's 32-bit integers)
DenLimit == 40000
MaxHistory == 2
NumHashSeeds == 2

(***************************************************************************)
(* ElementType: the eight elements and their indices.                      *)
(***************************************************************************)
QIAN == 0
SHE == 1
XIAN == 2
LI == 3
JIE == 4
SAN == 5
HUAN == 6
KUN == 7

Elements == {QIAN, SHE, XIAN, LI, JIE, SAN, HUAN, KUN}

(***************************************************************************)
(* Exact arithmetic helpers.                                               *)
(***************************************************************************)
Abs(x) == IF x < 0 THEN -x ELSE x

Max(a, b) == IF a >= b THEN a ELSE b

Min(a, b) == IF a <= b THEN a ELSE b

RECURSIVE GCD(_, _)
GCD(a, b) == IF b = 0 THEN Abs(a) ELSE GCD(Abs(b), Abs(a) % Abs(b))

RECURSIVE SumUpTo(_, _)
SumUpTo(n, j) == IF j < 0 THEN 0 ELSE n[j] + SumUpTo(n, j - 1)

\* np.sum(self.matrix[i, :]) as a numerator over the row's denominator
RowSum(n) == SumUpTo(n, 7)

RECURSIVE GcdUpTo(_, _, _)
GcdUpTo(n, j, g) == IF j < 0 THEN g ELSE GcdUpTo(n, j - 1, GCD(g, n[j]))

\* the same row in lowest terms (a change of representation only)
Reduce(row) ==
    LET g == GcdUpTo(row.n, 7, row.d)
    IN  IF g <= 1 THEN row
        ELSE [n |-> [j \in Elements |-> row.n[j] \div g], d |-> row.d \div g]

(***************************************************************************)
(* FundamentalFlowMatrix._build_fundamental_matrix: the seed tables, in    *)
(* thousandths.                                                            *)
(***************************************************************************)
SeedDen == 1000

self_retention ==
    [e \in Elements |->
        CASE e = QIAN -> 700 [] e = SHE -> 650 [] e = XIAN -> 750 [] e = LI -> 600
          [] e = JIE -> 680 [] e = SAN -> 550 [] e = HUAN -> 620 [] e = KUN -> 580]

\* <<source, target, flow>> in the order the dict is walked
outflow_patterns ==
    << <<QIAN, SHE, 120>>, <<QIAN, JIE, 80>>, <<QIAN, HUAN, 70>>, <<QIAN, XIAN, 30>>,
       <<XIAN, LI, 150>>, <<XIAN, SHE, 40>>, <<XIAN, SAN, 30>>, <<XIAN, KUN, 30>>,
       <<LI, XIAN, 120>>, <<LI, QIAN, 100>>, <<LI, HUAN, 80>>, <<LI, SAN, 100>>,
       <<KUN, QIAN, 150>>, <<KUN, XIAN, 120>>, <<KUN, JIE, 80>>, <<KUN, HUAN, 70>> >>

\* <<elem_a, elem_b, factor in tenths>>
symmetry_factors ==
    << <<QIAN, SHE, 6>>, <<XIAN, LI, 8>>, <<SAN, HUAN, 7>>, <<KUN, QIAN, 3>> >>

RECURSIVE ApplyOutflows(_, _)
ApplyOutflows(R, k) ==
    IF k > Len(outflow_patterns) THEN R
    ELSE LET p == outflow_patterns[k]
         IN  ApplyOutflows([R EXCEPT ![p[1]][p[2]] = p[3]], k + 1)

RECURSIVE ApplySymmetry(_, _)
ApplySymmetry(R, k) ==
    IF k > Len(symmetry_factors) THEN R
    ELSE LET p == symmetry_factors[k]
             a_to_b == R[p[1]][p[2]]
         IN  ApplySymmetry(IF a_to_b > 0
                           THEN [R EXCEPT ![p[2]][p[1]] = (a_to_b * p[3]) \div 10]
                           ELSE R,
                           k + 1)

\* the seed matrix R as numerators over SeedDen
BuildFundamentalMatrix ==
    LET diag == [i \in Elements |-> [j \in Elements |->
                    IF i = j THEN self_retention[i] ELSE 0]]
    IN  ApplySymmetry(ApplyOutflows(diag, 1), 1)

(***************************************************************************)
(* FundamentalFlowMatrix._enforce_constraints, one row i of the loop.      *)
(***************************************************************************)
PrecisionInv == 1000000

\* abs(x/d - 1.0) > self.precision, for a numerator x over d
OffByMoreThanPrecision(x, d) == Abs(x - d) > d \div PrecisionInv

\* abs(x/d - v.n/v.d) <= self.precision, without overflow for equal values
WithinPrecision(x, d, v) ==
    LET diff == Abs(x * v.d - v.n * d)
    IN  diff = 0 \/ diff <= (d * v.d) \div PrecisionInv

\* np.argmax over the list [matrix[i, j] for j in range(n) if j != i]: the
\* position, in that 7-element list, of its first maximum
ArgMaxOutflow(n, i) ==
    LET others == [p \in 0..6 |-> IF p < i THEN n[p] ELSE n[p + 1]]
        best == CHOOSE p \in 0..6 :
                    /\ \A q \in 0..6 : others[q] <= others[p]
                    /\ \A q \in 0..6 : others[q] = others[p] => p <= q
    IN  best

EnforceRow_NoNormalise(row, i) ==
    LET n0 == [j \in Elements |-> Max(0, row.n[j])]
        \* halves are needed for 0.5: work over 2*d
        n1 == [j \in Elements |-> 2 * n0[j]]
        d1 == 2 * row.d
        low == n1[i] < row.d
        idx == ArgMaxOutflow(n1, i)
        deficit == row.d - n1[i]
        n2 == IF low
              THEN [[n1 EXCEPT ![idx] = n1[idx] - deficit] EXCEPT ![i] = row.d]
              ELSE n1
    IN  Reduce([n |-> n2, d |-> d1])

EnforceRow(row, i) ==
    LET n0 == [j \in Elements |-> Max(0, row.n[j])]
        n1 == [j \in Elements |-> 2 * n0[j]]
        d1 == 2 * row.d
        low == n1[i] < row.d
        idx == ArgMaxOutflow(n1, i)
        deficit == row.d - n1[i]
        n2 == IF low
              THEN [[n1 EXCEPT ![idx] = n1[idx] - deficit] EXCEPT ![i] = row.d]
              ELSE n1
        row_sum == RowSum(n2)
    IN  IF OffByMoreThanPrecision(row_sum, d1)
        THEN Reduce([n |-> n2, d |-> row_sum])
        ELSE Reduce([n |-> n2, d |-> d1])

\* FundamentalFlowMatrix.__init__
NewFundamentalFlowMatrix ==
    LET R == BuildFundamentalMatrix
    IN  [i \in Elements |-> EnforceRow([n |-> R[i], d |-> SeedDen], i)]

(***************************************************************************)
(* get_flow and set_flow.  A value is a fraction [n, d].                   *)
(***************************************************************************)
GetFlowValue(m, source, target) == [n |-> m[source].n[target], d |-> m[source].d]

\* gcd of the off-diagonal numerators of a row and of g
RECURSIVE OffDiagGcd(_, _, _, _)
OffDiagGcd(n, source, j, g) ==
    IF j < 0 THEN g
    ELSE OffDiagGcd(n, source, j - 1, IF j = source THEN g ELSE GCD(g, n[j]))

\* the row `source` after set_flow(source, target, value)
SetFlowRow(row, source, target, value) ==
    LET D == row.d * value.d
        \* self.matrix[source.index, target.index] = value
        n1 == [j \in Elements |->
                 IF j = target THEN value.n * row.d ELSE row.n[j] * value.d]
        total_other == RowSum(n1) - n1[source]
        \* scale = (1 - matrix[source, source]) / total_other = p / q, in lowest
        \* terms; c is what the off-diagonal entries and q have in common
        g == GCD(D - n1[source], total_other)
        p == (D - n1[source]) \div g
        c == OffDiagGcd(n1, source, 7, total_other \div g)
        q == (total_other \div g) \div c
    IN  IF total_other > 0
        THEN \* for j != source: matrix[source, j] *= scale
             Reduce([n |-> [j \in Elements |->
                              IF j = source THEN n1[j] * q ELSE (n1[j] \div c) * p],
                     d |-> D * q])
        ELSE Reduce([n |-> n1, d |-> D])

\* the values set_flow is called with here: 0 and 1/4
FlowValues == {[n |-> 0, d |-> 1], [n |-> 1, d |-> 4]}

\* the rows set_flow is called on here: a row whose seed sums to more than 1
\* (QIAN), one whose seed sums to less than 1 and has a single outflow (SHE),
\* one with no outflow at all (JIE) and one whose seed sums to 1 (KUN)
SetSources == {QIAN, SHE, JIE, KUN}

SetFlow(source, target, value) ==
    /\ setCount < MaxSets
    /\ matrix[source].d * value.d <= DenLimit
    /\ matrix' = [matrix EXCEPT ![source] = SetFlowRow(@, source, target, value)]
    /\ setCount' = setCount + 1
    /\ lastSet' = [source |-> source, target |-> target, value |-> value]
    /\ flowRead' = None
    /\ UNCHANGED chaosVars
    /\ UNCHANGED <<calcVars, sourceVars, entityVars>>

GetFlow(source, target) ==
    /\ flowRead' = [source |-> source, target |-> target,
                    value |-> GetFlowValue(matrix, source, target)]
    /\ UNCHANGED <<matrix, setCount, lastSet>>
    /\ UNCHANGED chaosVars
    /\ UNCHANGED <<calcVars, sourceVars, entityVars>>

(***************************************************************************)
(* chaos_field.py.  Field values and excitations are in hundredths.        *)
(***************************************************************************)
Unit == 100

\* a real given in hundredths, as a residue (unit 1/Unit^2) and as an urgency
\* (unit 1/(10*Unit^2))
Res(h) == h * Unit

Urg(h) == h * Unit * 10

\* ChaosType
CREATIVE == "creative_chaos"
DESTRUCTIVE == "destructive_chaos"
TRANSITIONAL == "transitional_chaos"
PRIMAL == "primal_chaos"

ChaosTypes == {CREATIVE, DESTRUCTIVE, TRANSITIONAL, PRIMAL}

\* FieldState.fragmentation_level
fragmentation_level(fs) ==
    IF fs.fragmentation < 20 THEN "intact"
    ELSE IF fs.fragmentation < 50 THEN "cracking"
    ELSE IF fs.fragmentation < 80 THEN "fragmenting"
    ELSE "dissolving"

\* is_maintainable without the test of primal_flow
is_maintainable_CohesionOnly(fs) == fs.cohesion > 30

\* FieldState.is_maintainable
is_maintainable(fs) == fs.cohesion > 30 /\ fs.primal_flow > 20

\* ChaosAssessment.requires_kunzhuan
requires_kunzhuan(a) ==
    \/ fragmentation_level(a.field_state) = "dissolving"
    \/ a.guidance_urgency > Urg(70)
    \/ a.chaos_type = PRIMAL

\* ChaosAssessment.guidance_priority
guidance_priority(a) ==
    IF a.guidance_urgency > Urg(80) THEN "immediate"
    ELSE IF a.guidance_urgency > Urg(50) THEN "high"
    ELSE IF a.guidance_urgency > Urg(30) THEN "medium"
    ELSE "low"

\* DataSource._default_config()['kunzhuan'], thresholds in hundredths
kunzhuan_config ==
    [immerse_threshold |-> 5, target_gradient_threshold |-> 1,
     order_collapse_threshold |-> 20, conflict_threshold |-> 50,
     min_conditions |-> 3]

\* ChaosGuidanceField.__init__: self.kunzhuan_thresholds
kunzhuan_thresholds ==
    [field_cohesion |-> 30, target_clarity |-> 20, primal_flow |-> 20,
     fragmentation |-> kunzhuan_config.immerse_threshold * 10,
     min_conditions |-> kunzhuan_config.min_conditions]

\* the method library with its first two entries exchanged
MethodOrder_EmergentFirst ==
    <<"emergent_guidance", "primal_realignment", "radical_simplification",
      "complete_restart">>

\* the method library, in the insertion order of the dict
MethodOrder ==
    <<"primal_realignment", "emergent_guidance", "radical_simplification",
      "complete_restart">>

\* kunzhuan_methods[id]['applicability'](assess)
Applicability(id, assess) ==
    CASE id = "primal_realignment" -> assess.primal_residue > Res(30)
      [] id = "emergent_guidance" -> assess.chaos_type = CREATIVE
      [] id = "radical_simplification" -> assess.field_state.fragmentation > 70
      [] id = "complete_restart" -> assess.primal_residue < Res(10)

\* kunzhuan_methods[id]['ignores']
MethodIgnores(id) ==
    CASE id = "primal_realignment" -> <<"historical_constraints", "structural_complexity">>
      [] id = "emergent_guidance" -> <<"existing_patterns", "predetermined_paths">>
      [] id = "radical_simplification" ->
             <<"non_essential_complexities", "ancillary_structures">>
      [] id = "complete_restart" -> <<"everything_except_primal_principle">>

\* kunzhuan_methods[id]['description'] (the code's descriptions are Chinese
\* sentences, one per method; the model writes each as "<id> description")
MethodDescription(id) == id \o " description"

\* _calculate_primal_residue
CalculatePrimalResidue(primal_excitation, primal_flow) ==
    LET residue == IF primal_flow < 10
                   THEN primal_excitation * 30
                   ELSE primal_excitation * primal_flow
    IN  Min(Res(Unit), residue)

\* any(ts.get('active', False) for ts in target_states)
HasActiveTargets(target_states) ==
    \E k \in DOMAIN target_states :
        "active" \in DOMAIN target_states[k] /\ target_states[k].active

DetermineChaosType_InclusiveBound(field_state, primal_residue, target_states) ==
    IF ~is_maintainable(field_state) THEN PRIMAL
    ELSE IF field_state.target_clarity < 20 /\ ~HasActiveTargets(target_states)
    THEN (IF primal_residue >= Res(50) THEN TRANSITIONAL ELSE DESTRUCTIVE)
    ELSE IF field_state.fragmentation > 60
    THEN (IF primal_residue > Res(40) THEN TRANSITIONAL ELSE DESTRUCTIVE)
    ELSE (IF primal_residue > Res(60) THEN CREATIVE ELSE TRANSITIONAL)

\* _determine_chaos_type
DetermineChaosType(field_state, primal_residue, target_states) ==
    IF ~is_maintainable(field_state) THEN PRIMAL
    ELSE IF field_state.target_clarity < 20 /\ ~HasActiveTargets(target_states)
    THEN (IF primal_residue > Res(50) THEN TRANSITIONAL ELSE DESTRUCTIVE)
    ELSE IF field_state.fragmentation > 60
    THEN (IF primal_residue > Res(40) THEN TRANSITIONAL ELSE DESTRUCTIVE)
    ELSE (IF primal_residue > Res(60) THEN CREATIVE ELSE TRANSITIONAL)

\* type_contributions.get(chaos_type, 0.3)
TypeContribution(chaos_type) ==
    CASE chaos_type = PRIMAL -> Urg(80)
      [] chaos_type = DESTRUCTIVE -> Urg(60)
      [] chaos_type = TRANSITIONAL -> Urg(40)
      [] chaos_type = CREATIVE -> Urg(20)
      [] OTHER -> Urg(30)

\* _calculate_guidance_urgency without the final min(1.0, ...)
CalculateGuidanceUrgency_Uncapped(field_state, chaos_type, primal_residue) ==
    LET u1 == IF ~is_maintainable(field_state) THEN Urg(60) ELSE 0
        u2 == IF field_state.fragmentation > 70 THEN Urg(30) ELSE 0
        u3 == IF field_state.target_clarity < 20 THEN Urg(20) ELSE 0
        residue_adjustment == (Res(Unit) - primal_residue) * 4
    IN  u1 + u2 + u3 + TypeContribution(chaos_type) + residue_adjustment

\* _calculate_guidance_urgency
CalculateGuidanceUrgency(field_state, chaos_type, primal_residue) ==
    LET u1 == IF ~is_maintainable(field_state) THEN Urg(60) ELSE 0
        u2 == IF field_state.fragmentation > 70 THEN Urg(30) ELSE 0
        u3 == IF field_state.target_clarity < 20 THEN Urg(20) ELSE 0
        \* (1.0 - primal_residue) * 0.4
        residue_adjustment == (Res(Unit) - primal_residue) * 4
    IN  Min(Urg(Unit), u1 + u2 + u3 + TypeContribution(chaos_type) + residue_adjustment)

\* the ChaosAssessment assess_chaos builds
AssessChaosResult(field_state, primal_excitation, target_states) ==
    LET primal_residue == CalculatePrimalResidue(primal_excitation, field_state.primal_flow)
        chaos_type == DetermineChaosType(field_state, primal_residue, target_states)
    IN  [chaos_type |-> chaos_type,
         field_state |-> field_state,
         guidance_urgency |-> CalculateGuidanceUrgency(field_state, chaos_type, primal_residue),
         primal_residue |-> primal_residue]

\* the triggers list of check_kunzhuan_required, in the order of the four tests
Triggers(a) ==
    LET thresholds == kunzhuan_thresholds
        fs == a.field_state
        t1 == IF fs.cohesion < thresholds.field_cohesion
              THEN <<[trigger |-> "field_cohesion_below_threshold",
                      value |-> fs.cohesion, threshold |-> thresholds.field_cohesion]>>
              ELSE <<>>
        t2 == IF fs.target_clarity < thresholds.target_clarity
              THEN <<[trigger |-> "target_clarity_below_threshold",
                      value |-> fs.target_clarity, threshold |-> thresholds.target_clarity]>>
              ELSE <<>>
        t3 == IF fs.primal_flow < thresholds.primal_flow
              THEN <<[trigger |-> "primal_flow_below_threshold",
                      value |-> fs.primal_flow, threshold |-> thresholds.primal_flow]>>
              ELSE <<>>
        t4 == IF fs.fragmentation > thresholds.fragmentation
              THEN <<[trigger |-> "fragmentation_above_threshold",
                      value |-> fs.fragmentation, threshold |-> thresholds.fragmentation]>>
              ELSE <<>>
    IN  t1 \o t2 \o t3 \o t4

CheckResult_CountOnly(a) ==
    LET triggers == Triggers(a)
        requires == Len(triggers) >= kunzhuan_thresholds.min_conditions
    IN  [requires_kunzhuan |-> requires,
         triggers |-> triggers,
         conditions_met |-> Len(triggers),
         min_conditions |-> kunzhuan_thresholds.min_conditions,
         assessment_based |-> requires_kunzhuan(a),
         urgency |-> a.guidance_urgency,
         priority |-> guidance_priority(a)]

\* what check_kunzhuan_required returns
CheckResult(a) ==
    LET triggers == Triggers(a)
        requires == Len(triggers) >= kunzhuan_thresholds.min_conditions
                    \/ requires_kunzhuan(a)
    IN  [requires_kunzhuan |-> requires,
         triggers |-> triggers,
         conditions_met |-> Len(triggers),
         min_conditions |-> kunzhuan_thresholds.min_conditions,
         assessment_based |-> requires_kunzhuan(a),
         urgency |-> a.guidance_urgency,
         priority |-> guidance_priority(a)]

\* applicable_methods of _select_kunzhuan_method, as method ids in dict order
ApplicableMethods(a) == SelectSeq(MethodOrder, LAMBDA id : Applicability(id, a))

IsRadical(id) == id \in {"radical_simplification", "complete_restart"}

SelectKunzhuanMethod_FirstApplicable(a) ==
    LET applicable_methods == ApplicableMethods(a)
    IN  IF applicable_methods = <<>> THEN "primal_realignment"
        ELSE applicable_methods[1]

\* _select_kunzhuan_method: the id of the method chosen
SelectKunzhuanMethod(a) ==
    LET applicable_methods == ApplicableMethods(a)
        radical == SelectSeq(applicable_methods, IsRadical)
    IN  IF applicable_methods = <<>> THEN "primal_realignment"
        ELSE IF a.guidance_urgency > Urg(80) /\ radical # <<>> THEN radical[1]
        ELSE applicable_methods[1]

(***************************************************************************)
(* list(set(base_ignores)): the elements of the set in the iteration order *)
(* of a Python set of strings, which follows the strings' hashes and so is *)
(* fixed for one process (one hash seed) and differs between processes.    *)
(* The model orders the names by a rank that depends on hashSeed.          *)
(***************************************************************************)
AspectNames ==
    <<"historical_constraints", "structural_complexity", "existing_patterns",
      "predetermined_paths", "non_essential_complexities", "ancillary_structures",
      "everything_except_primal_principle", "structural_integrity",
      "target_complexity", "historical_continuity", "fragmentation",
      "inconsistencies", "broken_connections">>

HashRank(name, seed) ==
    LET idx == CHOOSE k \in DOMAIN AspectNames : AspectNames[k] = name
    IN  (idx * seed) % 17

Range(seq) == {seq[k] : k \in DOMAIN seq}

RECURSIVE ListOfSet(_, _)
ListOfSet(S, seed) ==
    IF S = {} THEN <<>>
    ELSE LET first == CHOOSE x \in S : \A y \in S : HashRank(x, seed) <= HashRank(y, seed)
         IN  <<first>> \o ListOfSet(S \ {first}, seed)

IdentifyIgnoredElements_NoCore(a, method_ignores, seed) ==
    LET i1 == IF a.field_state.fragmentation > 70 THEN <<"structural_integrity">> ELSE <<>>
        i2 == IF a.field_state.target_clarity < 30 THEN <<"target_complexity">> ELSE <<>>
        i3 == IF a.primal_residue < Res(30) THEN <<"historical_continuity">> ELSE <<>>
        base_ignores == method_ignores \o i1 \o i2 \o i3
    IN  [ignored_aspects |-> ListOfSet(Range(base_ignores), seed)]

\* _identify_ignored_elements
IdentifyIgnoredElements(a, method_ignores, seed) ==
    LET i1 == IF a.field_state.fragmentation > 70 THEN <<"structural_integrity">> ELSE <<>>
        i2 == IF a.field_state.target_clarity < 30 THEN <<"target_complexity">> ELSE <<>>
        i3 == IF a.primal_residue < Res(30) THEN <<"historical_continuity">> ELSE <<>>
        core_ignores == <<"fragmentation", "inconsistencies", "broken_connections">>
        base_ignores == method_ignores \o i1 \o i2 \o i3 \o core_ignores
    IN  [ignored_aspects |-> ListOfSet(Range(base_ignores), seed)]

\* _extract_primal_core: the core_type
ExtractPrimalCore(primal_residue) ==
    IF primal_residue > Res(70) THEN "strong_primal_residue"
    ELSE IF primal_residue > Res(30) THEN "moderate_primal_residue"
    ELSE "weak_primal_remnant"

\* _establish_target_from_primal: the target_type
EstablishTargetFromPrimal(core_type) ==
    IF core_type = "strong_primal_residue" THEN "primal_realignment"
    ELSE IF core_type = "moderate_primal_residue" THEN "primal_recovery"
    ELSE "primal_survival"

\* _establish_rules_for_primal_alignment: the rule names
EstablishRules(core_type) ==
    <<"primal_excitation_priority">> \o
    (IF core_type = "strong_primal_residue"
     THEN <<"maintain_primal_flow", "align_targets_to_primal">>
     ELSE IF core_type = "moderate_primal_residue"
     THEN <<"protect_primal_residue", "gradual_recovery">>
     ELSE <<"survival_first", "minimal_structure">>)

\* _extract_emergent_patterns: the pattern types
ExtractEmergentPatterns(a) ==
    (IF a.primal_residue > 0 THEN <<"primal_residue_distribution">> ELSE <<>>) \o
    (IF a.field_state.fragmentation < 90 THEN <<"fragmentation_pattern">> ELSE <<>>) \o
    (IF a.chaos_type = CREATIVE THEN <<"creative_chaos_pattern">> ELSE <<>>)

\* _establish_guidance_from_emergence: the guidance principles
EstablishGuidance(patterns) ==
    LET has(p) == \E k \in DOMAIN patterns : patterns[k] = p
        g == (IF has("primal_residue_distribution")
              THEN <<"build_on_existing_clusters", "follow_natural_flow_tendencies">>
              ELSE <<>>) \o
             (IF has("creative_chaos_pattern")
              THEN <<"encourage_novel_combinations", "support_emerging_order">>
              ELSE <<>>)
    IN  IF g = <<>> THEN <<"observe_and_adapt", "minimal_intervention">> ELSE g

\* _extract_essential_principles
ExtractEssentialPrinciples(a) ==
    (IF a.primal_residue > 0
     THEN <<"primal_excitation_is_fundamental", "existence_requires_primal_flow">>
     ELSE <<>>) \o
    (IF a.field_state.cohesion > 0 THEN <<"cohesion_enables_function">> ELSE <<>>) \o
    (IF a.field_state.primal_flow > 0 THEN <<"flow_enables_vitality">> ELSE <<>>) \o
    (IF a.field_state.target_clarity > 0 THEN <<"clarity_enables_direction">> ELSE <<>>) \o
    <<"guidance_emerges_from_chaos", "simplify_to_essence">>

\* _create_minimal_targets: the target names
CreateMinimalTargets(essence) ==
    LET has(p) == \E k \in DOMAIN essence : essence[k] = p
    IN  (IF has("primal_excitation_is_fundamental")
         THEN <<"maintain_primal_excitation">> ELSE <<>>) \o
        (IF has("existence_requires_primal_flow")
         THEN <<"ensure_minimal_primal_flow">> ELSE <<>>) \o
        <<"adapt_to_emergent_conditions">>

\* method_choice['method'](assessment, current_targets, context): the four
\* _perform_* methods, each result reduced to what it derives from its inputs
PerformMethod(id, a, current_targets) ==
    CASE id = "primal_realignment" ->
             LET core == ExtractPrimalCore(a.primal_residue)
             IN  [process |-> "primal_realignment",
                  extracted_primal_core |-> core,
                  new_target |-> EstablishTargetFromPrimal(core),
                  new_rules |-> EstablishRules(core)]
      [] id = "emergent_guidance" ->
             LET patterns == ExtractEmergentPatterns(a)
                 guidance == EstablishGuidance(patterns)
             IN  [process |-> "emergent_guidance",
                  emergent_patterns |-> patterns,
                  guidance_emerged |-> guidance,
                  adaptive_targets |->
                      [k \in DOMAIN guidance |->
                          [principle_based |-> guidance[k],
                           connection_to_past |-> current_targets # <<>>]]]
      [] id = "radical_simplification" ->
             LET essence == ExtractEssentialPrinciples(a)
             IN  [process |-> "radical_simplification",
                  extracted_essence |-> essence,
                  minimal_targets |-> CreateMinimalTargets(essence)]
      [] id = "complete_restart" ->
             [process |-> "complete_restart", clean_slate |-> TRUE]

\* context.get('timestamp', 0.0)
ContextTimestamp(context) ==
    IF "timestamp" \in DOMAIN context THEN context.timestamp ELSE 0

KunzhuanRecord_IdFromLength(history, a, current_targets, context, seed) ==
    LET method_id == SelectKunzhuanMethod(a)
    IN  [kunzhuan_id |-> "kunzhuan_" \o ToString(Len(history)),
         timestamp |-> ContextTimestamp(context),
         trigger_assessment |-> a,
         method_used |-> MethodDescription(method_id),
         ignored_elements |-> IdentifyIgnoredElements(a, MethodIgnores(method_id), seed),
         result |-> PerformMethod(method_id, a, current_targets)]

\* the kunzhuan_record perform_kunzhuan builds
KunzhuanRecord(history, a, current_targets, context, seed) ==
    LET method_id == SelectKunzhuanMethod(a)
    IN  [kunzhuan_id |-> "kunzhuan_" \o ToString(Len(history) + 1),
         timestamp |-> ContextTimestamp(context),
         trigger_assessment |-> a,
         method_used |-> MethodDescription(method_id),
         ignored_elements |-> IdentifyIgnoredElements(a, MethodIgnores(method_id), seed),
         result |-> PerformMethod(method_id, a, current_targets)]

(***************************************************************************)
(* The operations of one ChaosGuidanceField.                               *)
(***************************************************************************)
AssessChaos(field_state, primal_excitation, target_states) ==
    LET a == AssessChaosResult(field_state, primal_excitation, target_states)
    IN  /\ current_chaos' = a
        /\ assessment' = a
        /\ lastOp' = "assess_chaos"
        /\ lastCheck' = None
        /\ UNCHANGED <<arg, hashSeed, kunzhuan_history, lastRecord>>
        /\ UNCHANGED matrixVars
        /\ UNCHANGED <<calcVars, sourceVars, entityVars>>

CheckKunzhuanRequired ==
    /\ assessment # None
    /\ lastCheck' = CheckResult(assessment)
    /\ lastOp' = "check_kunzhuan_required"
    /\ UNCHANGED <<arg, hashSeed, assessment, current_chaos, kunzhuan_history, lastRecord>>
    /\ UNCHANGED matrixVars
    /\ UNCHANGED <<calcVars, sourceVars, entityVars>>

PerformKunzhuan(current_targets, context) ==
    /\ assessment # None
    /\ Len(kunzhuan_history) < MaxHistory
    /\ LET kunzhuan_record ==
               KunzhuanRecord(kunzhuan_history, assessment, current_targets, context, hashSeed)
       IN  /\ kunzhuan_history' = Append(kunzhuan_history, kunzhuan_record)
           /\ lastRecord' = kunzhuan_record
    /\ lastOp' = "perform_kunzhuan"
    /\ UNCHANGED <<arg, hashSeed, assessment, current_chaos, lastCheck>>
    /\ UNCHANGED matrixVars
    /\ UNCHANGED <<calcVars, sourceVars, entityVars>>

(***************************************************************************)
(* The matrix on its own: construction, then set_flow and get_flow calls.  *)
(***************************************************************************)
MatrixInit ==
    /\ matrix = NewFundamentalFlowMatrix
    /\ setCount = 0
    /\ lastSet = None
    /\ flowRead = None

ChaosIdle ==
    /\ arg = None
    /\ hashSeed = 1
    /\ assessment = None
    /\ lastOp = "init"
    /\ current_chaos = None
    /\ kunzhuan_history = <<>>
    /\ lastCheck = None
    /\ lastRecord = None

\* no calculator built and no calculator call under study
CalcIdle ==
    /\ call = None
    /\ result = None
    /\ power_matrices = None

\* no data source requested and no field constructed
SourceIdle ==
    /\ DATA_SOURCE = None
    /\ instances = <<>>
    /\ fields = <<>>

\* no entity constructed
EntityIdle ==
    /\ individuals = <<>>
    /\ collective = None
    /\ steps = 0

MatrixSpecInit == MatrixInit /\ ChaosIdle /\ CalcIdle /\ SourceIdle /\ EntityIdle

MatrixNext ==
    \/ \E source \in SetSources, target \in Elements, value \in FlowValues :
           SetFlow(source, target, value)
    \/ \E source \in Elements, target \in Elements : GetFlow(source, target)

MatrixSpec == MatrixSpecInit /\ [][MatrixNext]_vars

(***************************************************************************)
(* One evaluation: the caller's arguments are fixed by Init and the field  *)
(* operations are applied to them.  The caller may also hold an assessment *)
(* it built itself (ChaosAssessment is a plain dataclass).                 *)
(***************************************************************************)
CohesionValues == {10, 30, 90}
FragmentationValues == {5, 50, 60, 70, 75, 80, 90}
PrimalFlowValues == {5, 10, 20, 50, 100}
TargetClarityValues == {10, 20, 50}
Excitations == {5, 50, 70, 100, 120}

FieldStates ==
    [cohesion : CohesionValues, fragmentation : FragmentationValues,
     primal_flow : PrimalFlowValues, target_clarity : TargetClarityValues]

\* target lists: empty, one dict without an 'active' key, an inactive and an
\* active target
TargetLists ==
    {<<>>,
     <<[name |-> "goal"]>>,
     <<[name |-> "goal", active |-> FALSE], [name |-> "goal", active |-> TRUE]>>}

\* contexts without and with a 'timestamp'
Contexts == {[step |-> 1], [step |-> 1, timestamp |-> 7]}

HandMadeAssessments(a) ==
    IF a.primal_excitation = 50 /\ a.field_state.cohesion = 90
       /\ a.field_state.primal_flow = 50 /\ a.field_state.target_clarity = 50
    THEN [chaos_type : ChaosTypes, field_state : {a.field_state},
          guidance_urgency : {Urg(50), Urg(75), Urg(85)},
          primal_residue : {Res(5), Res(10), Res(20), Res(30), Res(50), Res(80)}]
    ELSE {}

FieldInit ==
    /\ hashSeed \in 1..NumHashSeeds
    /\ lastOp = "init"
    /\ current_chaos = None
    /\ kunzhuan_history = <<>>
    /\ lastCheck = None
    /\ lastRecord = None

EvalInit ==
    /\ MatrixInit
    /\ CalcIdle
    /\ SourceIdle
    /\ EntityIdle
    /\ FieldInit
    /\ arg \in [field_state : FieldStates, primal_excitation : Excitations,
                target_states : TargetLists, context : {[step |-> 1, timestamp |-> 7]}]
    /\ assessment \in {None} \cup HandMadeAssessments(arg)

EvalNext ==
    \/ AssessChaos(arg.field_state, arg.primal_excitation, arg.target_states)
    \/ CheckKunzhuanRequired
    \* one evaluation: perform_kunzhuan is called once, on the fresh field
    \/ kunzhuan_history = <<>> /\ PerformKunzhuan(arg.target_states, arg.context)

EvalSpec == EvalInit /\ [][EvalNext]_vars

(***************************************************************************)
(* One field over many calls: any sequence of assess_chaos,                *)
(* check_kunzhuan_required and perform_kunzhuan, each with its own         *)
(* arguments.                                                              *)
(***************************************************************************)
LogFieldStates ==
    {[cohesion |-> 10, fragmentation |-> 90, primal_flow |-> 10, target_clarity |-> 10],
     [cohesion |-> 90, fragmentation |-> 5, primal_flow |-> 50, target_clarity |-> 50],
     [cohesion |-> 90, fragmentation |-> 75, primal_flow |-> 50, target_clarity |-> 50]}

LogExcitations == {5, 100}

LogInit ==
    /\ MatrixInit
    /\ CalcIdle
    /\ SourceIdle
    /\ EntityIdle
    /\ FieldInit
    /\ arg = None
    /\ assessment = None

LogNext ==
    \/ \E field_state \in LogFieldStates, primal_excitation \in LogExcitations :
           AssessChaos(field_state, primal_excitation, <<>>)
    \/ CheckKunzhuanRequired
    \/ \E context \in Contexts : PerformKunzhuan(<<>>, context)

LogSpec == LogInit /\ [][LogNext]_vars

(***************************************************************************)
(* Properties.                                                             *)
(***************************************************************************)
RowSumsToOne(row) == ~OffByMoreThanPrecision(RowSum(row.n), row.d)

DiagonalAtLeastHalf(row, i) == 2 * row.n[i] >= row.d

NonNegative(row) == \A j \in Elements : row.n[j] >= 0

\* the assessment assess_chaos returned is the one the caller holds
HoldsAssessed == current_chaos # None /\ assessment = current_chaos

\* the number of breached thresholds of a field state
BreachCount(fs) ==
    (IF fs.cohesion < 30 THEN 1 ELSE 0) + (IF fs.target_clarity < 20 THEN 1 ELSE 0)
    + (IF fs.primal_flow < 20 THEN 1 ELSE 0) + (IF fs.fragmentation > 50 THEN 1 ELSE 0)

\* C1 (as claimed): for the field state cohesion 0.1, target_clarity 0.1,
\* primal_flow 0.1, fragmentation 0.9, check_kunzhuan_required reports the
\* transition as required and, whenever the primal residue is below 0.1,
\* perform_kunzhuan selects and executes complete_restart.
C1_AllBreachedRestarts ==
    (HoldsAssessed
     /\ arg.field_state = [cohesion |-> 10, fragmentation |-> 90,
                           primal_flow |-> 10, target_clarity |-> 10])
    => /\ lastCheck # None => lastCheck.requires_kunzhuan
       /\ (lastRecord # None /\ current_chaos.primal_residue < Res(10))
          => /\ lastRecord.result.process = "complete_restart"
             /\ lastRecord.method_used = MethodDescription("complete_restart")

\* C2 (as claimed): for a field state with cohesion 0.9 and fragmentation 0.05
\* whose primal_flow is above 0.2 and whose target_clarity is at least 0.2,
\* whatever the excitation and the target list, check_kunzhuan_required
\* reports requires_kunzhuan = false.
C2_HealthyFieldNoEvent ==
    (HoldsAssessed /\ lastCheck # None
     /\ arg.field_state.cohesion = 90 /\ arg.field_state.fragmentation = 5
     /\ arg.field_state.primal_flow > 20 /\ arg.field_state.target_clarity >= 20)
    => ~lastCheck.requires_kunzhuan

\* C3 (as claimed): after any sequence of set_flow calls with values in [0,1]
\* every row of the matrix sums to 1 within 1e-6, every diagonal entry is at
\* least 0.5 and every entry is non-negative.
C3_InvariantsSurviveSetFlow ==
    \A i \in Elements :
        RowSumsToOne(matrix[i]) /\ DiagonalAtLeastHalf(matrix[i], i) /\ NonNegative(matrix[i])

\* C4 (as claimed): get_flow(source, target) called right after
\* set_flow(source, target, v) returns v within the tolerance 1e-6.
C4_SetGetRoundTrip ==
    (lastSet # None /\ flowRead # None
     /\ flowRead.source = lastSet.source /\ flowRead.target = lastSet.target)
    => WithinPrecision(flowRead.value.n, flowRead.value.d, lastSet.value)

\* C5: the matrix FundamentalFlowMatrix() constructs (before any set_flow) has
\* every row summing to 1 within 1e-6, every diagonal entry at least 0.5 and
\* no negative entry.
C5_ConstructionInvariants ==
    setCount = 0 =>
        \A i \in Elements :
            RowSumsToOne(matrix[i]) /\ DiagonalAtLeastHalf(matrix[i], i)
            /\ NonNegative(matrix[i])

\* C5 witness: the freshly constructed matrix, whose QIAN row had a seed sum
\* above 1 (1.045) and has been normalised
C5_Witness ==
    /\ setCount = 0
    /\ RowSum(BuildFundamentalMatrix[QIAN]) > SeedDen
    /\ RowSum(matrix[QIAN].n) = matrix[QIAN].d

\* C6 (as claimed): check_kunzhuan_required reports requires_kunzhuan = true
\* exactly when at least 3 thresholds are breached, or the type is PRIMAL, or
\* urgency > 0.7, or fragmentation > 0.8; conditions_met is the breach count.
C6_TriggerAsClaimed ==
    (HoldsAssessed /\ lastCheck # None) =>
        LET a == assessment
            n == BreachCount(a.field_state)
        IN  /\ lastCheck.requires_kunzhuan <=>
                   (n >= 3 \/ a.chaos_type = PRIMAL \/ a.guidance_urgency > Urg(70)
                    \/ a.field_state.fragmentation > 80)
            /\ lastCheck.conditions_met = n

\* C6 (amended): check_kunzhuan_required reports requires_kunzhuan = true
\* exactly when at least 3 thresholds are breached, or the type is PRIMAL, or
\* urgency > 0.7, or fragmentation >= 0.8; conditions_met is the breach count.
C6_TriggerDecision ==
    lastCheck # None =>
        LET a == assessment
            n == BreachCount(a.field_state)
        IN  /\ lastCheck.requires_kunzhuan <=>
                   (n >= 3 \/ a.chaos_type = PRIMAL \/ a.guidance_urgency > Urg(70)
                    \/ a.field_state.fragmentation >= 80)
            /\ lastCheck.conditions_met = n

\* C6 witness: a check that requires the transition at fragmentation 0.8 exactly,
\* with fewer than 3 breaches, a type other than PRIMAL and urgency at most 0.7
C6_Witness ==
    /\ HoldsAssessed
    /\ lastCheck # None
    /\ lastCheck.requires_kunzhuan
    /\ assessment.field_state.fragmentation = 80
    /\ BreachCount(assessment.field_state) < 3
    /\ assessment.chaos_type # PRIMAL
    /\ assessment.guidance_urgency <= Urg(70)

\* no dict of the target list is active
NoActiveTarget(target_states) ==
    \A k \in DOMAIN target_states :
        ~("active" \in DOMAIN target_states[k]) \/ ~target_states[k].active

\* C7: assess_chaos computes residue = excitation*0.3 if primal_flow < 0.1 else
\* excitation*primal_flow, capped at 1, and returns PRIMAL if cohesion <= 0.3 or
\* primal_flow <= 0.2; otherwise, if target_clarity < 0.2 and no target is
\* active, DESTRUCTIVE when residue <= 0.5 else TRANSITIONAL; otherwise, if
\* fragmentation > 0.6, DESTRUCTIVE when residue <= 0.4 else TRANSITIONAL;
\* otherwise CREATIVE when residue > 0.6 else TRANSITIONAL.
C7_Classification ==
    current_chaos # None =>
        LET fs == arg.field_state
            e == arg.primal_excitation
            raw == IF fs.primal_flow < 10 THEN e * 30 ELSE e * fs.primal_flow
            residue == IF raw > 10000 THEN 10000 ELSE raw
            type == IF fs.cohesion <= 30 \/ fs.primal_flow <= 20 THEN PRIMAL
                    ELSE IF fs.target_clarity < 20 /\ NoActiveTarget(arg.target_states)
                    THEN (IF residue <= 5000 THEN DESTRUCTIVE ELSE TRANSITIONAL)
                    ELSE IF fs.fragmentation > 60
                    THEN (IF residue <= 4000 THEN DESTRUCTIVE ELSE TRANSITIONAL)
                    ELSE (IF residue > 6000 THEN CREATIVE ELSE TRANSITIONAL)
        IN  /\ current_chaos.primal_residue = residue
            /\ current_chaos.chaos_type = type
            /\ current_chaos.chaos_type \in ChaosTypes

\* C7 witness: an assessment on the boundary residue = 0.5 of the lost-target
\* branch, classified DESTRUCTIVE
C7_Witness ==
    /\ current_chaos # None
    /\ current_chaos.chaos_type = DESTRUCTIVE
    /\ current_chaos.primal_residue = Res(50)
    /\ arg.field_state.target_clarity < 20
    /\ arg.field_state.fragmentation <= 60

\* the strategy a record says was selected and executed
SelectedStrategy(record) == record.result.process

\* C8: with A the strategies whose applicability predicate holds, in the order
\* primal_realignment, emergent_guidance, radical_simplification,
\* complete_restart: the selected strategy is primal_realignment when A is
\* empty; otherwise, when urgency > 0.8 and A contains radical_simplification
\* or complete_restart, it is one of those two; otherwise it is the first
\* element of A.  One of the four strategies is always selected.
C8_StrategySelection ==
    lastRecord # None =>
        LET a == lastRecord.trigger_assessment
            sel == SelectedStrategy(lastRecord)
            pr == a.primal_residue > 3000
            eg == a.chaos_type = CREATIVE
            rs == a.field_state.fragmentation > 70
            cr == a.primal_residue < 1000
            firstOfA == IF pr THEN "primal_realignment"
                        ELSE IF eg THEN "emergent_guidance"
                        ELSE IF rs THEN "radical_simplification"
                        ELSE "complete_restart"
        IN  /\ sel \in {"primal_realignment", "emergent_guidance",
                        "radical_simplification", "complete_restart"}
            /\ lastRecord.method_used = MethodDescription(sel)
            /\ IF ~(pr \/ eg \/ rs \/ cr) THEN sel = "primal_realignment"
               ELSE IF a.guidance_urgency > 80000 /\ (rs \/ cr)
               THEN \/ rs /\ sel = "radical_simplification"
                    \/ cr /\ sel = "complete_restart"
               ELSE sel = firstOfA

\* C8 witness: primal_realignment applies and comes first, but urgency is above
\* 0.8 and radical_simplification applies too, and is the one selected
C8_Witness ==
    /\ lastRecord # None
    /\ lastRecord.trigger_assessment.primal_residue > Res(30)
    /\ lastRecord.trigger_assessment.field_state.fragmentation > 70
    /\ lastRecord.trigger_assessment.guidance_urgency > Urg(80)
    /\ SelectedStrategy(lastRecord) = "radical_simplification"

\* C9: kunzhuan_history only grows by appending: a perform_kunzhuan call
\* appends exactly one record and leaves the earlier ones as they were,
\* assess_chaos and check_kunzhuan_required leave the history as it was, and
\* the k-th record carries the id kunzhuan_k.
C9_AppendOnlyLog ==
    [][/\ lastOp' = "perform_kunzhuan"
          => /\ Len(kunzhuan_history') = Len(kunzhuan_history) + 1
             /\ SubSeq(kunzhuan_history', 1, Len(kunzhuan_history)) = kunzhuan_history
       /\ lastOp' # "perform_kunzhuan" => kunzhuan_history' = kunzhuan_history
       /\ \A k \in 1..Len(kunzhuan_history') :
             kunzhuan_history'[k].kunzhuan_id = "kunzhuan_" \o ToString(k)
       /\ \A j, k \in 1..Len(kunzhuan_history') :
             kunzhuan_history'[j].kunzhuan_id = kunzhuan_history'[k].kunzhuan_id => j = k
      ]_vars

\* C9 witness: a second record has just been appended, for another assessment
\* than the first
C9_Witness ==
    /\ lastOp = "perform_kunzhuan"
    /\ Len(kunzhuan_history) = 2
    /\ kunzhuan_history[2].kunzhuan_id = "kunzhuan_2"
    /\ kunzhuan_history[1].trigger_assessment # kunzhuan_history[2].trigger_assessment

\* C10: the record perform_kunzhuan appends has an ignored_aspects list that
\* contains fragmentation, inconsistencies and broken_connections, contains
\* every entry of the selected strategy's own ignore list, and has no duplicate.
C10_IgnoredAspects ==
    lastRecord # None =>
        LET aspects == lastRecord.ignored_elements.ignored_aspects
            own == MethodIgnores(SelectedStrategy(lastRecord))
        IN  /\ {"fragmentation", "inconsistencies", "broken_connections"} \subseteq Range(aspects)
            /\ Range(own) \subseteq Range(aspects)
            /\ \A j, k \in DOMAIN aspects : aspects[j] = aspects[k] => j = k
            /\ lastRecord = kunzhuan_history[Len(kunzhuan_history)]

\* C10 witness: a record of radical_simplification whose list holds the
\* strategy's two entries, the three state-dependent ones and the three core ones
C10_Witness ==
    /\ lastRecord # None
    /\ SelectedStrategy(lastRecord) = "radical_simplification"
    /\ Len(lastRecord.ignored_elements.ignored_aspects) = 8
    /\ "historical_continuity" \in Range(lastRecord.ignored_elements.ignored_aspects)

\* the same number as two fractions
SameFraction(a, b) == a.n * b.d = b.n * a.d

\* C11 (as claimed): a set_flow(source, target, v) call leaves
\* matrix[source, source] unchanged and leaves every row other than row
\* `source` unchanged.
C11_FrameOfSet ==
    [][setCount' = setCount + 1 =>
         /\ \A i \in Elements \ {lastSet'.source} : matrix'[i] = matrix[i]
         /\ SameFraction(GetFlowValue(matrix', lastSet'.source, lastSet'.source),
                         GetFlowValue(matrix, lastSet'.source, lastSet'.source))]_vars

(***************************************************************************)
(* The calculators as functions of their arguments: `call` holds one call  *)
(* (the name of the function and its arguments), fixed by Init, and the    *)
(* action of that function stores what it returns in `result`.             *)
(***************************************************************************)
CalcFrame == UNCHANGED <<call, power_matrices, matrixVars, chaosVars, sourceVars, entityVars>>

Pending(op) == call # None /\ call.op = op /\ result = None

Returned(op) == call # None /\ call.op = op /\ result # None

\* what a call that returned x leaves in `result`
Return(x) == [value |-> x]

\* ---- chaos_field.py: _calculate_guidance_urgency on its own ----
UrgencyResidues == {0, Res(25), Res(50), Res(75), Res(Unit)}

UrgencyCalls ==
    [op : {"_calculate_guidance_urgency"}, field_state : FieldStates,
     chaos_type : ChaosTypes, primal_residue : UrgencyResidues]

CalculateGuidanceUrgencyCall ==
    /\ Pending("_calculate_guidance_urgency")
    /\ result' = Return(CalculateGuidanceUrgency(call.field_state, call.chaos_type,
                                                 call.primal_residue))
    /\ CalcFrame

\* C12: for every field state, crisis type and residue in [0,1] the guidance
\* urgency is min(1.0, [0.6 if cohesion <= 0.3 or primal_flow <= 0.2]
\* + [0.3 if fragmentation > 0.7] + [0.2 if target_clarity < 0.2] + base(type)
\* + (1 - residue)*0.4), base being 0.8 / 0.6 / 0.4 / 0.2 for PRIMAL /
\* DESTRUCTIVE / TRANSITIONAL / CREATIVE, and so lies in [0,1].
C12_Urgency ==
    Returned("_calculate_guidance_urgency") =>
        LET fs == call.field_state
            unmaintainable == IF fs.cohesion <= 30 \/ fs.primal_flow <= 20 THEN 60000 ELSE 0
            fragmented == IF fs.fragmentation > 70 THEN 30000 ELSE 0
            unclear == IF fs.target_clarity < 20 THEN 20000 ELSE 0
            base == CASE call.chaos_type = PRIMAL -> 80000
                      [] call.chaos_type = DESTRUCTIVE -> 60000
                      [] call.chaos_type = TRANSITIONAL -> 40000
                      [] call.chaos_type = CREATIVE -> 20000
            sum == unmaintainable + fragmented + unclear + base
                   + (10000 - call.primal_residue) * 4
        IN  /\ result.value = (IF sum < 100000 THEN sum ELSE 100000)
            /\ result.value >= 0 /\ result.value <= 100000

\* C12 witness: a call whose sum exceeds 1.0 (an unmaintainable PRIMAL field)
\* and is capped, and the call is not the only kind: the cap is what returns
C12_Witness ==
    /\ Returned("_calculate_guidance_urgency")
    /\ call.chaos_type = PRIMAL /\ call.field_state.cohesion = 30
    /\ call.field_state.fragmentation = 70 /\ call.primal_residue = Res(50)
    /\ result.value = Urg(Unit)

\* ---- target.py: TargetCalculator ----
\* str.lower() on the letters used here
UpperCase == <<"A", "B", "C", "D", "E", "F", "G", "H", "I", "J", "K", "L", "M", "N", "O", "P", "Q", "R", "S", "T", "U", "V", "W", "X", "Y", "Z">>
LowerCase == <<"a", "b", "c", "d", "e", "f", "g", "h", "i", "j", "k", "l", "m", "n", "o", "p", "q", "r", "s", "t", "u", "v", "w", "x", "y", "z">>

Lower(ch) ==
    IF \E i \in 1..Len(UpperCase) : UpperCase[i] = ch
    THEN LowerCase[CHOOSE i \in 1..Len(UpperCase) : UpperCase[i] = ch]
    ELSE ch

\* reason.lower()
LowerText(text) == [i \in 1..Len(text) |-> Lower(text[i])]

\* kw in text
Contains(kw, text) ==
    \E i \in 1..(Len(text) - Len(kw) + 1) : SubSeq(text, i, i + Len(kw) - 1) = kw

\* survival_keywords, as sequences of characters
survival_keywords ==
    <<<<"s", "u", "r", "v", "i", "v", "a", "l">>,
      <<"d", "e", "f", "e", "n", "s", "e">>,
      <<"t", "h", "r", "e", "a", "t">>,
      <<"p", "r", "o", "t", "e", "c", "t">>,
      <<"s", "u", "r", "v", "i", "v", "e">>>>

\* the elimination configuration with a base justification of 0.5
elimination_config_LowBase ==
    [base_justification |-> 5000, primal_gain_factor |-> 3, collective_bonus |-> 4000,
     survival_multiplier |-> 2, threshold |-> 6000]

\* self.config['elimination']: scores in 1/10000, the gain factor in tenths
elimination_config ==
    [base_justification |-> 8000, primal_gain_factor |-> 3, collective_bonus |-> 4000,
     survival_multiplier |-> 2, threshold |-> 6000]

\* compute_elimination_justification matching the keywords against the reason
\* as written, without reason.lower()
ComputeEliminationJustification_CaseSensitive(agent_type, reason, agent_primal, target_primal, has_collective_benefit) ==
    LET cfg == elimination_config
        base_score ==
            IF \E k \in 1..Len(survival_keywords) : Contains(survival_keywords[k], reason)
            THEN cfg.base_justification * cfg.survival_multiplier
            ELSE cfg.base_justification
        expected_gain == agent_primal * 5 + target_primal * 3
        gain_contribution == expected_gain * cfg.primal_gain_factor
        collective_bonus ==
            (IF has_collective_benefit THEN cfg.collective_bonus ELSE 0)
            + (IF agent_type = "Collective" THEN cfg.collective_bonus \div 2 ELSE 0)
        total_score == base_score + gain_contribution + collective_bonus
    IN  [justified |-> total_score > cfg.threshold, score |-> total_score,
         threshold |-> cfg.threshold,
         components |-> [base |-> base_score, expected_gain |-> expected_gain,
                         gain_contribution |-> gain_contribution,
                         collective_bonus |-> collective_bonus],
         primal_gain_expected |-> expected_gain]

\* compute_elimination_justification.  Primal strengths are in hundredths,
\* expected_gain in 1/1000 and the scores in 1/10000.
ComputeEliminationJustification(agent_type, reason, agent_primal, target_primal, has_collective_benefit) ==
    LET cfg == elimination_config
        base_score ==
            IF \E k \in 1..Len(survival_keywords) :
                   Contains(survival_keywords[k], LowerText(reason))
            THEN cfg.base_justification * cfg.survival_multiplier
            ELSE cfg.base_justification
        \* agent_primal * 0.5 + target_primal * 0.3
        expected_gain == agent_primal * 5 + target_primal * 3
        gain_contribution == expected_gain * cfg.primal_gain_factor
        collective_bonus ==
            (IF has_collective_benefit THEN cfg.collective_bonus ELSE 0)
            + (IF agent_type = "Collective" THEN cfg.collective_bonus \div 2 ELSE 0)
        total_score == base_score + gain_contribution + collective_bonus
    IN  [justified |-> total_score > cfg.threshold, score |-> total_score,
         threshold |-> cfg.threshold,
         components |-> [base |-> base_score, expected_gain |-> expected_gain,
                         gain_contribution |-> gain_contribution,
                         collective_bonus |-> collective_bonus],
         primal_gain_expected |-> expected_gain]

\* the reason texts tried
ReasonTexts ==
    {<<"s", "u", "r", "v", "i", "v", "a", "l">>,
     <<"S", "u", "r", "v", "i", "v", "a", "l", " ", "n", "o", "w">>,
     <<"O", "U", "R", " ", "S", "U", "R", "V", "I", "V", "A", "L">>,
     <<"a", " ", "t", "h", "r", "e", "a", "t">>,
     <<"P", "R", "O", "T", "E", "C", "T">>,
     <<"s", "u", "r", "v", "i", "v">>,
     <<"r", "e", "v", "e", "n", "g", "e">>,
     <<"G", "A", "I", "N">>,
     <<>>}

AgentTypes == {"Individual", "Collective", "Swarm"}
PrimalStrengths == {0, 50, 100}

EliminationCalls ==
    [op : {"compute_elimination_justification"}, agent_type : AgentTypes,
     reason : ReasonTexts, agent_primal : PrimalStrengths,
     target_primal : PrimalStrengths, has_collective_benefit : BOOLEAN]

ComputeEliminationJustificationCall ==
    /\ Pending("compute_elimination_justification")
    /\ result' = Return(ComputeEliminationJustification(
                            call.agent_type, call.reason, call.agent_primal,
                            call.target_primal, call.has_collective_benefit))
    /\ CalcFrame

\* the text has the word at some position, whatever the case of its letters
HasWordAnyCase(word, text) ==
    \E i \in 1..(Len(text) - Len(word) + 1) :
        \A j \in 1..Len(word) : Lower(text[i + j - 1]) = word[j]

HasNoKeyword(text) ==
    \A k \in 1..Len(survival_keywords) : ~HasWordAnyCase(survival_keywords[k], text)

\* C13: a call whose reason text contains "survival" in any letter case
\* returns a strictly higher score than the same call (same agent type,
\* primal strengths and collective-benefit flag) with a reason text that
\* contains none of the keywords survival, defense, threat, protect, survive.
C13_SurvivalKeyword ==
    (Returned("compute_elimination_justification")
     /\ HasWordAnyCase(survival_keywords[1], call.reason)) =>
        \A other \in ReasonTexts :
            HasNoKeyword(other) =>
                result.value.score >
                    ComputeEliminationJustification(
                        call.agent_type, other, call.agent_primal,
                        call.target_primal, call.has_collective_benefit).score

\* C13 witness: a Collective's call with the keyword in upper case, scored
\* 1.6 + 0.0 + 0.6
C13_Witness ==
    /\ Returned("compute_elimination_justification")
    /\ call.reason = <<"O", "U", "R", " ", "S", "U", "R", "V", "I", "V", "A", "L">>
    /\ call.agent_type = "Collective" /\ call.has_collective_benefit
    /\ call.agent_primal = 0 /\ call.target_primal = 0
    /\ result.value.score = 22000 /\ result.value.justified

\* self.config['target']: factors in 1/1000, clarity and multipliers in tenths
target_config ==
    [base_factor |-> 500, clarity_per_target |-> 2, high_priority_multiplier |-> 10,
     low_priority_multiplier |-> 7, max_target_factor |-> 1000, zero_target_base |-> 800]

\* compute_target_factor without the n_targets == 0 case
ComputeTargetFactor_NoZeroCase(n_targets, has_high_priority) ==
    LET cfg == target_config
        clarity == n_targets * cfg.clarity_per_target
        priority == IF has_high_priority THEN cfg.high_priority_multiplier
                    ELSE cfg.low_priority_multiplier
        raw_factor == cfg.base_factor + clarity * priority * 10
    IN  [value |-> Min(cfg.max_target_factor, raw_factor), clarity |-> clarity,
         priority_multiplier |-> priority, n_targets |-> n_targets,
         has_high_priority |-> has_high_priority]

\* compute_target_factor
ComputeTargetFactor(n_targets, has_high_priority) ==
    LET cfg == target_config
        clarity == n_targets * cfg.clarity_per_target
        priority == IF has_high_priority THEN cfg.high_priority_multiplier
                    ELSE cfg.low_priority_multiplier
        \* tenths times tenths, in 1/1000
        raw_factor == cfg.base_factor + clarity * priority * 10
    IN  IF n_targets = 0
        THEN [value |-> cfg.zero_target_base, clarity |-> 0, priority_multiplier |-> 0,
              n_targets |-> 0, has_high_priority |-> FALSE]
        ELSE [value |-> Min(cfg.max_target_factor, raw_factor), clarity |-> clarity,
              priority_multiplier |-> priority, n_targets |-> n_targets,
              has_high_priority |-> has_high_priority]

\* the largest number of targets tried
MaxTargets == 5

TargetFactorCalls ==
    [op : {"compute_target_factor"}, n_targets : 0..MaxTargets,
     has_high_priority : BOOLEAN]

ComputeTargetFactorCall ==
    /\ Pending("compute_target_factor")
    /\ result' = Return(ComputeTargetFactor(call.n_targets, call.has_high_priority))
    /\ CalcFrame

\* C14: compute_target_factor(0, h) returns 0.8 for both h; for n_targets >= 1
\* it returns min(1.0, 0.5 + n_targets*0.2*p) with p = 1.0 if
\* has_high_priority else 0.7; the value is in [0,1].
C14_TargetFactor ==
    Returned("compute_target_factor") =>
        LET n == call.n_targets
            \* n * 0.2 * p in 1/1000
            np == IF call.has_high_priority THEN n * 200 ELSE n * 140
        IN  /\ n = 0 => result.value.value = 800
            /\ n >= 1 => result.value.value = (IF 500 + np < 1000 THEN 500 + np ELSE 1000)
            /\ result.value.value >= 0 /\ result.value.value <= 1000

\* C14 witness: no target and the high-priority flag set
C14_Witness ==
    /\ Returned("compute_target_factor")
    /\ call.n_targets = 0 /\ call.has_high_priority
    /\ result.value.value = 800

(***************************************************************************)
(* indirect.py.  The powers of the matrix have numerators and denominators *)
(* beyond 32 bits, so they are computed on natural numbers of any size: a  *)
(* Big is the sequence of a number's digits in base Base, lowest digit     *)
(* first, without leading zeros (0 is the empty sequence).                 *)
(***************************************************************************)
Base == 10000

RECURSIVE Carry(_, _, _)
\* the digits of sum_i digits[i] * Base^(i-1) + carry * Base^(i0-1), from
\* position i on
Carry(digits, i, carry) ==
    IF i > Len(digits)
    THEN (IF carry = 0 THEN <<>>
          ELSE <<carry % Base>> \o Carry(digits, i, carry \div Base))
    ELSE <<(digits[i] + carry) % Base>>
         \o Carry(digits, i + 1, (digits[i] + carry) \div Base)

RECURSIVE Trim(_)
Trim(digits) ==
    IF digits = <<>> \/ digits[Len(digits)] # 0 THEN digits
    ELSE Trim(SubSeq(digits, 1, Len(digits) - 1))

BigOf(n) == Trim(Carry(<<n>>, 1, 0))

DigitAt(a, i) == IF i >= 1 /\ i <= Len(a) THEN a[i] ELSE 0

BigAdd(a, b) ==
    Trim(Carry([i \in 1..Max(Len(a), Len(b)) |-> DigitAt(a, i) + DigitAt(b, i)], 1, 0))

RECURSIVE Convolve(_, _, _, _)
\* sum over i <= upTo of a[i] * b[k + 1 - i]
Convolve(a, b, k, upTo) ==
    IF upTo < 1 THEN 0
    ELSE a[upTo] * DigitAt(b, k + 1 - upTo) + Convolve(a, b, k, upTo - 1)

BigMul(a, b) ==
    IF a = <<>> \/ b = <<>> THEN <<>>
    ELSE Trim(Carry([k \in 1..(Len(a) + Len(b) - 1) |->
                        Convolve(a, b, k, Min(k, Len(a)))], 1, 0))

RECURSIVE BigLessFrom(_, _, _)
\* a < b, both of length at least i, decided by the digits from i down
BigLessFrom(a, b, i) ==
    IF i < 1 THEN FALSE
    ELSE IF a[i] # b[i] THEN a[i] < b[i]
    ELSE BigLessFrom(a, b, i - 1)

BigLess(a, b) ==
    IF Len(a) # Len(b) THEN Len(a) < Len(b) ELSE BigLessFrom(a, b, Len(a))

BigLeq(a, b) == a = b \/ BigLess(a, b)

RECURSIVE BigPower(_, _)
BigPower(a, k) == IF k = 0 THEN BigOf(1) ELSE BigMul(a, BigPower(a, k - 1))

\* two fractions of Bigs denote the same number
SameBigFraction(n1, d1, n2, d2) == BigMul(n1, d2) = BigMul(n2, d1)

\* ---- indirect.py: IndirectInfluenceCalculator ----
LCM(a, b) == (a \div GCD(a, b)) * b

RECURSIVE CommonDenUpTo(_, _)
CommonDenUpTo(m, i) == IF i < 0 THEN 1 ELSE LCM(m[i].d, CommonDenUpTo(m, i - 1))

\* one denominator for the whole matrix
CommonDen(m) == CommonDenUpTo(m, 7)

\* the matrix as Big numerators over CommonDen(m)
BigMatrix(m) ==
    LET D == CommonDen(m)
    IN  [i \in Elements |-> [j \in Elements |-> BigOf(m[i].n[j] * (D \div m[i].d))]]

RECURSIVE DotUpTo(_, _, _, _)
\* sum over i <= upTo of v[i] * B[i][j]
DotUpTo(v, B, j, upTo) ==
    IF upTo < 0 THEN <<>>
    ELSE BigAdd(BigMul(v[upTo], B[upTo][j]), DotUpTo(v, B, j, upTo - 1))

\* the row vector v times the matrix B (each entry computed once)
VecMat(v, B) ==
    LET products == <<DotUpTo(v, B, 0, 7), DotUpTo(v, B, 1, 7), DotUpTo(v, B, 2, 7),
                      DotUpTo(v, B, 3, 7), DotUpTo(v, B, 4, 7), DotUpTo(v, B, 5, 7),
                      DotUpTo(v, B, 6, 7), DotUpTo(v, B, 7, 7)>>
    IN  [j \in Elements |-> products[j + 1]]

MatMul(A, B) == [i \in Elements |-> VecMat(A[i], B)]

\* the orders _compute_power_matrices caches (max_order = 5)
CachedOrders == 1..5

\* _compute_power_matrices: np.linalg.matrix_power(direct_matrix, k) for k in
\* 2..5, as numerators over den^k.  Order 1 is not a copy: power_matrices[1] is
\* the direct matrix itself.
ComputePowerMatrices(m) ==
    LET A == BigMatrix(m)
        p2 == MatMul(A, A)
        p3 == MatMul(p2, A)
        p4 == MatMul(p3, A)
        p5 == MatMul(p4, A)
    IN  [den |-> CommonDen(m), powers |-> <<A, p2, p3, p4, p5>>]

\* self.power_matrices[order][source_idx, target_idx] as a fraction of Bigs
PowerEntry(direct, cache, order, source_idx, target_idx) ==
    IF order = 1
    THEN [n |-> BigMatrix(direct)[source_idx][target_idx], d |-> BigOf(CommonDen(direct))]
    ELSE [n |-> cache.powers[order][source_idx][target_idx],
          d |-> BigPower(BigOf(cache.den), order)]

\* direct_matrix[i, j] > 0.01
AboveNoise(direct, i, j) == direct[i].n[j] * 100 > direct[i].d

\* the ([source, mediator, target], strength) pairs in mediator order; a
\* strength is a Big numerator over CommonDen(direct)^2
RECURSIVE CandidatePaths(_, _, _, _)
CandidatePaths(direct, source_idx, target_idx, mediator) ==
    IF mediator > 7 THEN <<>>
    ELSE LET A == BigMatrix(direct)
             rest == CandidatePaths(direct, source_idx, target_idx, mediator + 1)
         IN  IF mediator # source_idx /\ mediator # target_idx
                /\ AboveNoise(direct, source_idx, mediator)
                /\ AboveNoise(direct, mediator, target_idx)
             THEN <<[path |-> <<source_idx, mediator, target_idx>>,
                     strength |-> BigMul(A[source_idx][mediator], A[mediator][target_idx])]>>
                  \o rest
             ELSE rest

RECURSIVE InsertDescending(_, _)
\* p goes after every path at least as strong (the sort is stable)
InsertDescending(sorted, p) ==
    IF sorted = <<>> THEN <<p>>
    ELSE IF BigLess(Head(sorted).strength, p.strength) THEN <<p>> \o sorted
    ELSE <<Head(sorted)>> \o InsertDescending(Tail(sorted), p)

RECURSIVE SortDescending(_, _)
\* paths.sort(key=lambda x: x[1], reverse=True)
SortDescending(paths, sorted) ==
    IF paths = <<>> THEN sorted
    ELSE SortDescending(Tail(paths), InsertDescending(sorted, Head(paths)))

\* _find_dominant_path that does not cut the list to 3
FindDominantPath_Untruncated(direct, source_idx, target_idx, max_order) ==
    IF source_idx = target_idx THEN <<>>
    ELSE SortDescending(CandidatePaths(direct, source_idx, target_idx, 0), <<>>)

\* _find_dominant_path
FindDominantPath(direct, source_idx, target_idx, max_order) ==
    IF source_idx = target_idx THEN <<>>
    ELSE LET paths == SortDescending(CandidatePaths(direct, source_idx, target_idx, 0), <<>>)
         IN  SubSeq(paths, 1, Min(3, Len(paths)))

RECURSIVE DecayWeightSum(_, _)
\* sum over k in 1..order of 7^(k-1) * 10^(max_order-k)
DecayWeightSum(max_order, order) ==
    IF order < 1 THEN 0
    ELSE 7^(order - 1) * 10^(max_order - order) + DecayWeightSum(max_order, order - 1)

RECURSIVE DecayedFlowSum(_, _, _, _, _, _)
\* total_flow times 10^(max_order-1) * CommonDen(direct) * cache.den^max_order
DecayedFlowSum(direct, cache, source_idx, target_idx, max_order, order) ==
    IF order < 1 THEN <<>>
    ELSE LET flow == PowerEntry(direct, cache, order, source_idx, target_idx)
             \* decay_factor = 0.7 ** (order - 1), over 10^(max_order - 1)
             decay == BigOf(7^(order - 1) * 10^(max_order - order))
             scale == IF order = 1
                      THEN BigPower(BigOf(cache.den), max_order)
                      ELSE BigMul(BigOf(CommonDen(direct)),
                                  BigPower(BigOf(cache.den), max_order - order))
             rest == DecayedFlowSum(direct, cache, source_idx, target_idx,
                                    max_order, order - 1)
         IN  IF order \in CachedOrders
             THEN BigAdd(BigMul(BigMul(flow.n, decay), scale), rest)
             ELSE rest

\* compute_total_influence normalising by the number of orders instead of by
\* the sum of the decay weights
ComputeTotalInfluence_DividedByOrders(direct, cache, source_idx, target_idx, max_order) ==
    [total_influence |->
         [n |-> DecayedFlowSum(direct, cache, source_idx, target_idx, max_order, max_order),
          d |-> BigMul(BigMul(BigOf(CommonDen(direct)), BigPower(BigOf(cache.den), max_order)),
                       BigOf(max_order * 10^(max_order - 1)))],
     direct_influence |-> PowerEntry(direct, cache, 1, source_idx, target_idx),
     indirect_influences |->
         [order \in (1..max_order) \cap CachedOrders |->
              PowerEntry(direct, cache, order, source_idx, target_idx)],
     max_order |-> max_order,
     dominant_path |-> FindDominantPath(direct, source_idx, target_idx, max_order)]

\* compute_total_influence.  total_influence is total_flow / max_possible as
\* a fraction of Bigs.
ComputeTotalInfluence(direct, cache, source_idx, target_idx, max_order) ==
    [total_influence |->
         [n |-> DecayedFlowSum(direct, cache, source_idx, target_idx, max_order, max_order),
          d |-> BigMul(BigMul(BigOf(CommonDen(direct)), BigPower(BigOf(cache.den), max_order)),
                       BigOf(DecayWeightSum(max_order, max_order)))],
     direct_influence |-> PowerEntry(direct, cache, 1, source_idx, target_idx),
     indirect_influences |->
         [order \in (1..max_order) \cap CachedOrders |->
              PowerEntry(direct, cache, order, source_idx, target_idx)],
     max_order |-> max_order,
     dominant_path |-> FindDominantPath(direct, source_idx, target_idx, max_order)]

\* a matrix two set_flow calls make of the constructed one: set_flow(SAN, SAN,
\* 0.25) then set_flow(SAN, QIAN, 0.25) leave row SAN as 0.75 to QIAN and 0.25
\* on the diagonal, and XIAN then reaches QIAN through four mediators
Quarter == [n |-> 1, d |-> 4]

ReshapedMatrix ==
    [NewFundamentalFlowMatrix EXCEPT
        ![SAN] = SetFlowRow(SetFlowRow(@, SAN, SAN, Quarter), SAN, QIAN, Quarter)]

TotalInfluenceCalls ==
    [op : {"compute_total_influence"}, source_idx : Elements, target_idx : Elements,
     max_order : CachedOrders]

ComputeTotalInfluenceCall ==
    /\ Pending("compute_total_influence")
    /\ result' = Return(ComputeTotalInfluence(matrix, power_matrices, call.source_idx,
                                              call.target_idx, call.max_order))
    /\ CalcFrame

RECURSIVE ExpectedFlowSum(_, _, _, _, _, _)
\* sum over k in order..max_order of 0.7^(k-1) * (M^k)[source, target], times
\* 10^(max_order-1) * D^max_order; row is row `source` of A^order, M = A / D
ExpectedFlowSum(A, D, row, target_idx, max_order, order) ==
    IF order > max_order THEN <<>>
    ELSE BigAdd(BigMul(BigMul(row[target_idx], BigOf(7^(order - 1) * 10^(max_order - order))),
                       BigPower(BigOf(D), max_order - order)),
                ExpectedFlowSum(A, D, VecMat(row, A), target_idx, max_order, order + 1))

StochasticRows(m) == \A i \in Elements : NonNegative(m[i]) /\ RowSum(m[i].n) = m[i].d

\* C16: on a matrix M with non-negative rows that sum to 1,
\* compute_total_influence returns total_influence = (sum over k in
\* 1..max_order of 0.7^(k-1) * (M^k)[source,target]) / (sum over k in
\* 1..max_order of 0.7^(k-1)) for every source, target and max_order in 1..5,
\* and the value is in [0,1].
C16_TotalInfluence ==
    (Returned("compute_total_influence") /\ StochasticRows(matrix)) =>
        LET A == BigMatrix(matrix)
            D == CommonDen(matrix)
            K == call.max_order
            expected ==
                [n |-> ExpectedFlowSum(A, D, A[call.source_idx], call.target_idx, K, 1),
                 d |-> BigMul(BigPower(BigOf(D), K), BigOf(DecayWeightSum(K, K)))]
            total == result.value.total_influence
        IN  /\ SameBigFraction(total.n, total.d, expected.n, expected.d)
            /\ BigLeq(total.n, total.d)

\* C16 witness: QIAN to SHE through five orders on the constructed matrix, a
\* value strictly between 0 and 1
C16_Witness ==
    /\ Returned("compute_total_influence")
    /\ matrix = NewFundamentalFlowMatrix
    /\ call.source_idx = QIAN /\ call.target_idx = SHE /\ call.max_order = 5
    /\ result.value.total_influence.n # <<>>
    /\ BigLess(result.value.total_influence.n, result.value.total_influence.d)
    /\ Len(result.value.total_influence.d) > 3

\* the mediators of the two-hop paths from source to target: distinct from
\* both, with both edges above 0.01
Mediators(m, source_idx, target_idx) ==
    {x \in Elements \ {source_idx, target_idx} :
        /\ m[source_idx].n[x] * 100 > m[source_idx].d
        /\ m[x].n[target_idx] * 100 > m[x].d}

\* direct(source, x) * direct(x, target), as a numerator over CommonDen(m)^2
TwoHopStrength(m, source_idx, x, target_idx) ==
    BigMul(BigMatrix(m)[source_idx][x], BigMatrix(m)[x][target_idx])

\* paths is the list of the (at most 3) strongest two-hop paths, strongest
\* first
StrongestTwoHopPaths(m, source_idx, target_idx, paths) ==
    LET mediators == Mediators(m, source_idx, target_idx)
        listed == {paths[i].path[2] : i \in 1..Len(paths)}
    IN  /\ Len(paths) = Min(3, Cardinality(mediators))
        /\ Cardinality(listed) = Len(paths)
        /\ listed \subseteq mediators
        /\ \A i \in 1..Len(paths) :
               /\ paths[i].path = <<source_idx, paths[i].path[2], target_idx>>
               /\ paths[i].strength =
                      TwoHopStrength(m, source_idx, paths[i].path[2], target_idx)
        /\ \A i \in 1..(Len(paths) - 1) : BigLeq(paths[i + 1].strength, paths[i].strength)
        /\ \A x \in mediators \ listed : \A i \in 1..Len(paths) :
               BigLeq(TwoHopStrength(m, source_idx, x, target_idx), paths[i].strength)

\* C17 (as claimed): for every source and target, dominant_path holds exactly
\* the two-hop paths [source, m, target] over the mediators m distinct from
\* both with direct(source,m) > 0.01 and direct(m,target) > 0.01, each with
\* strength direct(source,m)*direct(m,target), cut to the 3 strongest and in
\* non-increasing order of strength.
C17_DominantPathsAsClaimed ==
    Returned("compute_total_influence") =>
        StrongestTwoHopPaths(matrix, call.source_idx, call.target_idx,
                             result.value.dominant_path)

\* C17 (amended): the same for every source and target that differ; when
\* source = target, dominant_path is empty.
C17_DominantPaths ==
    Returned("compute_total_influence") =>
        IF call.source_idx = call.target_idx
        THEN result.value.dominant_path = <<>>
        ELSE StrongestTwoHopPaths(matrix, call.source_idx, call.target_idx,
                                  result.value.dominant_path)

\* C17 witness: on the reshaped matrix XIAN reaches QIAN through SHE, LI, SAN
\* and KUN; the result lists SAN, LI, KUN and drops SHE, the weakest
C17_Witness ==
    /\ Returned("compute_total_influence")
    /\ matrix = ReshapedMatrix
    /\ call.source_idx = XIAN /\ call.target_idx = QIAN
    /\ Cardinality(Mediators(matrix, XIAN, QIAN)) = 4
    /\ Len(result.value.dominant_path) = 3
    /\ result.value.dominant_path[1].path = <<XIAN, SAN, QIAN>>
    /\ result.value.dominant_path[2].path = <<XIAN, LI, QIAN>>
    /\ result.value.dominant_path[3].path = <<XIAN, KUN, QIAN>>

\* ---- tension.py: TensionFieldCalculator ----
\* self.thresholds, in hundredths
thresholds == [low |-> 20, medium |-> 50, high |-> 70, critical |-> 90]

\* the levels _classify_tension_level returns, by the meaning of the Chinese
\* words of the source, lowest first
TensionLevels == <<"very_low", "low", "medium", "high", "critical">>

TensionTypes == {"structural", "dynamic", "potential", "conflict", "total"}

\* _classify_tension_level with <= in place of <
ClassifyTensionLevel_Inclusive(value) ==
    IF value <= thresholds.low THEN TensionLevels[1]
    ELSE IF value <= thresholds.medium THEN TensionLevels[2]
    ELSE IF value <= thresholds.high THEN TensionLevels[3]
    ELSE IF value <= thresholds.critical THEN TensionLevels[4]
    ELSE TensionLevels[5]

\* _classify_tension_level
ClassifyTensionLevel(value) ==
    IF value < thresholds.low THEN TensionLevels[1]
    ELSE IF value < thresholds.medium THEN TensionLevels[2]
    ELSE IF value < thresholds.high THEN TensionLevels[3]
    ELSE IF value < thresholds.critical THEN TensionLevels[4]
    ELSE TensionLevels[5]

\* _get_tension_description: the text is entry level_idx of the list of the
\* tension type (of the list of five "unknown state" texts for another type)
GetTensionDescription(tension_type, value) ==
    LET level_idx ==
            IF value < thresholds.low THEN 0
            ELSE IF value < thresholds.medium THEN 1
            ELSE IF value < thresholds.high THEN 2
            ELSE IF value < thresholds.critical THEN 3
            ELSE 4
    IN  [list |-> IF tension_type \in TensionTypes THEN tension_type ELSE "unknown",
         index |-> level_idx]

\* _package_result
PackageResult(tension_type, value, element_states) ==
    [value |-> value,
     level |-> ClassifyTensionLevel(value),
     description |-> GetTensionDescription(tension_type, value),
     components |-> [raw_value |-> value, thresholds |-> thresholds,
                     element_count |-> Cardinality(DOMAIN element_states)]]

\* tension values, in hundredths: every cut point, its neighbours and the ends
TensionValues == {0, 10, 19, 20, 21, 49, 50, 51, 69, 70, 71, 89, 90, 91, 100}

PackageCalls ==
    [op : {"_package_result"}, tension_type : TensionTypes, value : TensionValues,
     element_states : {[key \in keys |-> 50] : keys \in {{}, {QIAN, KUN}}}]

PackageResultCall ==
    /\ Pending("_package_result")
    /\ result' = Return(PackageResult(call.tension_type, call.value, call.element_states))
    /\ CalcFrame

\* C18: the level is very-low iff v < 0.2, low iff 0.2 <= v < 0.5, medium iff
\* 0.5 <= v < 0.7, high iff 0.7 <= v < 0.9 and critical iff v >= 0.9, and the
\* description of a result is the one of the same bin as its level.
C18_TensionBins ==
    Returned("_package_result") =>
        LET v == call.value
            level == result.value.level
        IN  /\ level = "very_low" <=> v < 20
            /\ level = "low" <=> (20 <= v /\ v < 50)
            /\ level = "medium" <=> (50 <= v /\ v < 70)
            /\ level = "high" <=> (70 <= v /\ v < 90)
            /\ level = "critical" <=> v >= 90
            /\ result.value.description.list = call.tension_type
            /\ TensionLevels[result.value.description.index + 1] = level

\* C18 witness: the total tension exactly at the cut point 0.7 is high, with
\* the fourth description of the list
C18_Witness ==
    /\ Returned("_package_result")
    /\ call.tension_type = "total" /\ call.value = 70
    /\ result.value.level = "high" /\ result.value.description.index = 3

\* ---- expansion.py: PossibilityExpansionSystem ----
\* self.dimensions: stability, flexibility, diversity, connectivity, novelty,
\* efficiency
Dimensions == 0..5

\* self.element_contribution, in tenths
element_contribution ==
    [e \in Elements |->
        CASE e = QIAN -> [d \in Dimensions |-> <<8, 2, 1, 3, 1, 6>>[d + 1]]
          [] e = SHE  -> [d \in Dimensions |-> <<3, 7, 6, 4, 8, 4>>[d + 1]]
          [] e = XIAN -> [d \in Dimensions |-> <<6, 1, 2, 5, 3, 3>>[d + 1]]
          [] e = LI   -> [d \in Dimensions |-> <<1, 9, 7, 2, 6, 2>>[d + 1]]
          [] e = JIE  -> [d \in Dimensions |-> <<7, 4, 3, 6, 2, 5>>[d + 1]]
          [] e = SAN  -> [d \in Dimensions |-> <<2, 8, 9, 7, 5, 3>>[d + 1]]
          [] e = HUAN -> [d \in Dimensions |-> <<4, 6, 8, 9, 4, 7>>[d + 1]]
          [] e = KUN  -> [d \in Dimensions |-> <<1, 9, 5, 3, 9, 2>>[d + 1]]]

\* the strength a key contributes: keys outside element_contribution are skipped
Strength(element_states, e) ==
    IF e \in DOMAIN element_states THEN element_states[e] ELSE 0

\* total_weight, in hundredths
TotalWeight(element_states) ==
    SumUpTo([e \in Elements |-> Strength(element_states, e)], 7)

\* possibility_vector before the normalisation, in thousandths
WeightedContribution(element_states, d) ==
    SumUpTo([e \in Elements |->
                Strength(element_states, e) * element_contribution[e][d]], 7)

ZeroVector == [n |-> [d \in Dimensions |-> 0], d |-> 1]

\* compute_possibility_space without the division by total_weight
ComputePossibilitySpace_Unnormalised(element_states) ==
    [n |-> [d \in Dimensions |-> WeightedContribution(element_states, d)], d |-> 1000]

\* compute_possibility_space: the vector as numerators n over one denominator d
ComputePossibilitySpace(element_states) ==
    LET total_weight == TotalWeight(element_states)
    IN  IF total_weight > 0
        THEN [n |-> [d \in Dimensions |-> WeightedContribution(element_states, d)],
              d |-> 10 * total_weight]
        ELSE ZeroVector

\* a key that is no ElementType
ForeignKey == 8

\* the keys and intensities of the element_states tried: intensities inside
\* [0,1], above 1 and below 0
StateKeys == {QIAN, SHE, KUN, ForeignKey}
Intensities == {0, 50, 100, 150, -50}

ElementStates == UNION {[keys -> Intensities] : keys \in SUBSET StateKeys}

InDomain(element_states) ==
    \A key \in DOMAIN element_states :
        element_states[key] >= 0 /\ element_states[key] <= Unit

PossibilityCalls == [op : {"compute_possibility_space"}, element_states : ElementStates]

ComputePossibilitySpaceCall ==
    /\ Pending("compute_possibility_space")
    /\ result' = Return(ComputePossibilitySpace(call.element_states))
    /\ CalcFrame

\* C19: for intensities in [0,1] (elements may be omitted)
\* compute_possibility_space returns the zero vector when the supplied
\* intensities sum to 0 and otherwise, for each dimension d,
\* (sum over supplied elements e of intensity_e * contribution_e[d])
\* / (sum of intensity_e), which lies in [0,1].
C19_PossibilityProjection ==
    (Returned("compute_possibility_space") /\ InDomain(call.element_states)) =>
        LET es == call.element_states
            supplied == DOMAIN es \cap Elements
            total == SumUpTo([e \in Elements |-> IF e \in supplied THEN es[e] ELSE 0], 7)
            weighted(d) ==
                SumUpTo([e \in Elements |->
                            IF e \in supplied THEN es[e] * element_contribution[e][d]
                            ELSE 0], 7)
            v == result.value
        IN  IF total = 0
            THEN \A d \in Dimensions : v.n[d] = 0
            ELSE \A d \in Dimensions :
                     \* v.n[d] / v.d = (weighted(d) / 1000) / (total / 100)
                     /\ v.n[d] * total * 10 = weighted(d) * v.d
                     /\ v.n[d] >= 0 /\ v.n[d] <= v.d

\* C19 witness: QIAN at 0.5 and KUN at 1.0, SHE omitted; stability is
\* (0.5*0.8 + 1.0*0.1) / 1.5 = 1/3
C19_Witness ==
    /\ Returned("compute_possibility_space")
    /\ DOMAIN call.element_states = {QIAN, KUN}
    /\ call.element_states[QIAN] = 50 /\ call.element_states[KUN] = 100
    /\ 3 * result.value.n[0] = result.value.d

\* what a rejected call would hand back to its caller
IsInputDomainError(returned) == "error" \in DOMAIN returned

Scale == 10000

\* exp(-y) for 0 <= y <= 0.625, by its Taylor polynomial of degree 4
ExpNegSmall(y) ==
    LET y2 == (y * y) \div Scale
        y3 == (y2 * y) \div Scale
        y4 == (y3 * y) \div Scale
    IN  Scale - y + y2 \div 2 - y3 \div 6 + y4 \div 24

Square(x) == (x * x) \div Scale

\* np.exp(-y) for 0 <= y <= 10: exp(-y) = exp(-y/16)^16
ExpNeg(y) == Square(Square(Square(Square(ExpNegSmall(y \div 16)))))

\* self.config['primal']: b, s, a in hundredths, r in hundredths, k
primal_config ==
    [base_excitation |-> 85, pressure_sensitivity |-> 80, adaptive_capacity |-> 69,
     resilience_factor |-> 189, sigmoid_steepness |-> 10]

\* compute_primal_excitation without the final max(0.05, min(1.2, ...))
ComputePrimalExcitation_Unclamped(pressure) ==
    LET cfg == primal_config
        e1 == ExpNeg(cfg.sigmoid_steepness * (Scale - cfg.pressure_sensitivity * pressure))
        suppression == (e1 * Scale) \div (e1 + Scale)
        e2 == ExpNeg(cfg.resilience_factor * pressure)
        gain == (cfg.adaptive_capacity * (Scale - e2)) \div 100
        adapt_gain == IF pressure < 70 THEN Min(3000, gain)
                      ELSE (gain * (100 - pressure)) \div 30
        adaptation == Scale + Max(0, adapt_gain)
    IN  ((((Scale - (8 * suppression) \div 10) * adaptation) \div Scale)
            * cfg.base_excitation) \div 100

\* compute_primal_excitation on a DataSource whose config['primal'] is cfg;
\* pressure is in hundredths, the result in 1/Scale
ComputePrimalExcitationWith(cfg, pressure) ==
    LET
        \* suppression = 1 / (1 + exp(-k*(s*p - 1))) = e1 / (e1 + 1) with
        \* e1 = exp(-k*(1 - s*p))
        e1 == ExpNeg(cfg.sigmoid_steepness * (Scale - cfg.pressure_sensitivity * pressure))
        suppression == (e1 * Scale) \div (e1 + Scale)
        \* a * (1 - exp(-r*p))
        e2 == ExpNeg(cfg.resilience_factor * pressure)
        gain == (cfg.adaptive_capacity * (Scale - e2)) \div 100
        adapt_gain ==
            IF pressure < 70 THEN Min(3000, gain)
            \* 1 - (p - 0.7) / 0.3 = (1 - p) / 0.3
            ELSE (gain * (100 - pressure)) \div 30
        adaptation == Scale + Max(0, adapt_gain)
        excitation ==
            ((((Scale - (8 * suppression) \div 10) * adaptation) \div Scale)
                * cfg.base_excitation) \div 100
    IN  Max(500, Min(12000, excitation))

\* compute_primal_excitation on a DataSource with the default configuration
ComputePrimalExcitation(pressure) == ComputePrimalExcitationWith(primal_config, pressure)

\* pressures in [0,1], in hundredths
Pressures == {5 * i : i \in 0..20} \cup {1, 69, 71, 99}

ExcitationCalls == [op : {"compute_primal_excitation"}, pressure : Pressures]

ComputePrimalExcitationCall ==
    /\ Pending("compute_primal_excitation")
    /\ result' = Return(ComputePrimalExcitation(call.pressure))
    /\ CalcFrame

\* C20: with the default constants compute_primal_excitation(p) is in
\* [0.05, 1.2] for every pressure p in [0,1].
C20_ExcitationRange ==
    (Returned("compute_primal_excitation") /\ call.pressure >= 0 /\ call.pressure <= 100) =>
        (result.value >= 500 /\ result.value <= 12000)

\* C20 witness: at p = 0.7 the adaptation gain is no longer held at 0.3, the
\* formula gives about 1.268 and the result is the upper bound 1.2
C20_Witness ==
    /\ Returned("compute_primal_excitation")
    /\ call.pressure = 70
    /\ result.value = 12000

\* ---- data_source.py: the singleton, and the fields that hold it ----
MaxInstances == 3
MaxFields == 2

\* DataSource._default_config(), the sections the modelled fields read
default_config == [primal |-> primal_config, kunzhuan |-> kunzhuan_config]

\* an empty dict, falsy like None
EmptyDict == [len |-> 0]

\* two complete configurations that differ from the default one
ConfigA == [primal |-> [primal_config EXCEPT !.base_excitation = 50],
            kunzhuan |-> kunzhuan_config]
ConfigB == [primal |-> [primal_config EXCEPT !.base_excitation = 100],
            kunzhuan |-> [kunzhuan_config EXCEPT !.min_conditions = 2]]

Configs == {None, EmptyDict, ConfigA, ConfigB}

\* DataSource.__init__: self.config = config or self._default_config()
NewDataSource(config) ==
    [config |-> IF config = None \/ config = EmptyDict THEN default_config ELSE config]

\* get_data_source building a new DataSource whenever a configuration is passed
GetDataSourceResult_Reconfigure(config) ==
    IF DATA_SOURCE = None \/ (config # None /\ config # EmptyDict)
    THEN [instances |-> Append(instances, NewDataSource(config)), ref |-> [id |-> Len(instances) + 1]]
    ELSE [instances |-> instances, ref |-> DATA_SOURCE]

\* get_data_source(config): the instances after the call and a reference
\* [id |-> k] to the one returned, instances[k]
GetDataSourceResult(config) ==
    IF DATA_SOURCE = None
    THEN [instances |-> Append(instances, NewDataSource(config)), ref |-> [id |-> Len(instances) + 1]]
    ELSE [instances |-> instances, ref |-> DATA_SOURCE]

SourceFrame == UNCHANGED <<power_matrices, matrixVars, chaosVars, entityVars>>

GetDataSource(config) ==
    LET got == GetDataSourceResult(config)
    IN  /\ Len(got.instances) <= MaxInstances
        /\ instances' = got.instances
        /\ DATA_SOURCE' = got.ref
        /\ call' = [op |-> "get_data_source", config |-> config]
        /\ result' = Return(got.ref)
        /\ UNCHANGED fields
        /\ SourceFrame

ResetDataSource ==
    /\ DATA_SOURCE' = None
    /\ call' = [op |-> "reset_data_source"]
    /\ result' = Return(None)
    /\ UNCHANGED <<instances, fields>>
    /\ SourceFrame

\* PrimalField.__init__
NewPrimalField(config) ==
    LET got == GetDataSourceResult(config)
    IN  /\ Len(fields) < MaxFields
        /\ Len(got.instances) <= MaxInstances
        /\ instances' = got.instances
        /\ DATA_SOURCE' = got.ref
        /\ fields' = Append(fields, [kind |-> "PrimalField", data |-> got.ref])
        /\ call' = [op |-> "PrimalField", config |-> config]
        /\ result' = Return(Len(fields) + 1)
        /\ SourceFrame

\* ChaosGuidanceField.__init__, as far as the data source is concerned
NewChaosGuidanceField(config) ==
    LET got == GetDataSourceResult(config)
        kunzhuan == got.instances[got.ref.id].config.kunzhuan
    IN  /\ Len(fields) < MaxFields
        /\ Len(got.instances) <= MaxInstances
        /\ instances' = got.instances
        /\ DATA_SOURCE' = got.ref
        /\ fields' = Append(fields, [kind |-> "ChaosGuidanceField", data |-> got.ref,
                                     kunzhuan_config |-> kunzhuan,
                                     kunzhuan_thresholds |->
                                         [field_cohesion |-> 30, target_clarity |-> 20,
                                          primal_flow |-> 20,
                                          fragmentation |-> kunzhuan.immerse_threshold * 10,
                                          min_conditions |-> kunzhuan.min_conditions]])
        /\ call' = [op |-> "ChaosGuidanceField", config |-> config]
        /\ result' = Return(Len(fields) + 1)
        /\ SourceFrame

\* a PrimalField computing from the default constants, whatever its data source
PrimalFieldComputeExcitation_OwnConstants(field, entity, pressure) ==
    ComputePrimalExcitation(pressure)

\* PrimalField.compute_excitation: self.data.compute_primal_excitation(pressure)
PrimalFieldComputeExcitation(field, entity, pressure) ==
    ComputePrimalExcitationWith(instances[field.data.id].config.primal, pressure)

ExcitationEntities == {None, [id |-> "a"]}
FieldPressures == {0, 30, 70, 100}

ComputeExcitation(f, entity, pressure) ==
    /\ f \in 1..Len(fields)
    /\ fields[f].kind = "PrimalField"
    /\ call' = [op |-> "compute_excitation", field |-> f, entity |-> entity,
                pressure |-> pressure]
    /\ result' = Return(PrimalFieldComputeExcitation(fields[f], entity, pressure))
    /\ UNCHANGED sourceVars
    /\ SourceFrame

SourceInit ==
    /\ MatrixInit
    /\ ChaosIdle
    /\ CalcIdle
    /\ SourceIdle
    /\ EntityIdle

SourceNext ==
    \/ \E config \in Configs : GetDataSource(config)
    \/ ResetDataSource
    \/ \E config \in Configs : NewPrimalField(config)
    \/ \E config \in Configs : NewChaosGuidanceField(config)
    \/ \E f \in 1..MaxFields, entity \in ExcitationEntities, pressure \in FieldPressures :
           ComputeExcitation(f, entity, pressure)

SourceSpec == SourceInit /\ [][SourceNext]_vars

\* C21: for every pressure p and every entity argument,
\* PrimalField.compute_excitation(entity, p) returns exactly the value
\* compute_primal_excitation(p) returns on the data source the field shares.
C21_FieldAddsNoFormula ==
    Returned("compute_excitation") =>
        LET shared == instances[fields[call.field].data.id]
        IN  /\ result.value = ComputePrimalExcitationWith(shared.config.primal, call.pressure)
            /\ fields[call.field].data = DATA_SOURCE
               => result.value = ComputePrimalExcitationWith(
                                     instances[DATA_SOURCE.id].config.primal, call.pressure)

\* C21 witness: the shared data source was configured with a base excitation of
\* 0.5, the field was called with an entity and returned the data source's
\* value, which is not the value of the default constants
C21_Witness ==
    /\ Returned("compute_excitation")
    /\ call.entity # None
    /\ call.pressure = 30
    /\ fields[call.field].data = DATA_SOURCE
    /\ instances[DATA_SOURCE.id].config = ConfigA
    /\ result.value = ComputePrimalExcitationWith(ConfigA.primal, 30)
    /\ result.value # ComputePrimalExcitation(30)

\* a step that asks for the data source: get_data_source or a field constructor
AsksForDataSource(op) == op \in {"get_data_source", "PrimalField", "ChaosGuidanceField"}

\* the data source a step that asked for it got
DataSourceGot ==
    IF call'.op = "get_data_source" THEN result'.value ELSE fields'[result'.value].data

\* C25: once a data source exists, every get_data_source(config) call (direct,
\* or made by the construction of a field) returns that same instance with
\* the configuration of the first call, whatever config is passed; only the
\* first call after reset_data_source() builds an instance, from its own config.
C25_FirstCallerConfigures ==
    [][(call' # None /\ AsksForDataSource(call'.op)) =>
          IF DATA_SOURCE # None
          THEN /\ DATA_SOURCE' = DATA_SOURCE
               /\ instances' = instances
               /\ DataSourceGot = DATA_SOURCE
          ELSE /\ DATA_SOURCE' = [id |-> Len(instances) + 1]
               /\ instances' = Append(instances, NewDataSource(call'.config))
               /\ DataSourceGot = DATA_SOURCE']_vars

\* C25 witness: after a reset the data source was built from ConfigA, and a
\* later call passing ConfigB got that same instance, still configured by A
C25_Witness ==
    /\ call # None
    /\ call.op = "ChaosGuidanceField"
    /\ call.config = ConfigB
    /\ Len(instances) >= 2
    /\ DATA_SOURCE = [id |-> Len(instances)]
    /\ fields[result.value].data = DATA_SOURCE
    /\ instances[DATA_SOURCE.id].config = ConfigA
    /\ fields[result.value].kunzhuan_config.min_conditions = 3

\* ---- matrix.py: the seed table against get_flow ----
\* the pair (source, target) has an entry in outflow_patterns
ListedOutflow(source, target) ==
    \E k \in 1..Len(outflow_patterns) :
        outflow_patterns[k][1] = source /\ outflow_patterns[k][2] = target

\* the weight the table gives that pair, over SeedDen
TableWeight(source, target) ==
    LET k == CHOOSE k \in 1..Len(outflow_patterns) :
                 outflow_patterns[k][1] = source /\ outflow_patterns[k][2] = target
    IN  [n |-> outflow_patterns[k][3], d |-> SeedDen]

\* C22 (as claimed): on a freshly constructed matrix, get_flow(source, target)
\* returns the weight the outflow table lists for (source, target); for
\* example get_flow(QIAN, SHE) = 0.12.
C22_SeedWeights ==
    (flowRead # None /\ setCount = 0 /\ ListedOutflow(flowRead.source, flowRead.target)) =>
        SameFraction(flowRead.value, TableWeight(flowRead.source, flowRead.target))

\* ---- indirect.py: a calculator whose matrix is changed after construction ----
(***************************************************************************)
(* An IndirectInfluenceCalculator is built on the constructed matrix, then *)
(* set_flow is called on that matrix, then compute_total_influence.        *)
(***************************************************************************)
CacheInit ==
    /\ MatrixInit
    /\ ChaosIdle
    /\ SourceIdle
    /\ EntityIdle
    /\ power_matrices = ComputePowerMatrices(NewFundamentalFlowMatrix)
    /\ call \in TotalInfluenceCalls
    /\ result = None

CacheNext ==
    \/ /\ result = None
       /\ \E source \in SetSources, target \in Elements, value \in FlowValues :
              SetFlow(source, target, value)
    \/ ComputeTotalInfluenceCall

CacheSpec == CacheInit /\ [][CacheNext]_vars

RECURSIVE RowOfPower(_, _, _)
\* row of A^k, given the same row of A
RowOfPower(A, row, k) == IF k <= 1 THEN row ELSE RowOfPower(A, VecMat(row, A), k - 1)

\* C23 (as claimed): after set_flow calls on the matrix a calculator was built
\* from, compute_total_influence reports for every order k in 1..max_order the
\* (source, target) entry of the k-th power of the matrix as it is now,
\* consistently with the direct component and the dominant paths of the same
\* result.
C23_PowerCacheCoherence ==
    Returned("compute_total_influence") =>
        LET A == BigMatrix(matrix)
            D == BigOf(CommonDen(matrix))
            r == result.value
        IN  /\ \A k \in 1..call.max_order :
                   SameBigFraction(r.indirect_influences[k].n, r.indirect_influences[k].d,
                                   RowOfPower(A, A[call.source_idx], k)[call.target_idx],
                                   BigPower(D, k))
            /\ r.direct_influence = r.indirect_influences[1]
            /\ r.dominant_path =
                   FindDominantPath(matrix, call.source_idx, call.target_idx, call.max_order)

\* ---- matrix.py: _enforce_constraints on seed rows other than the default ----
\* a seed row in tenths: `diag` on the diagonal of row i, `flow` in column j,
\* `rest` in column k and 0 elsewhere
SeedRow(i, diag, j, flow, k, rest) ==
    [n |-> [c \in Elements |->
               IF c = i THEN diag ELSE IF c = j THEN flow ELSE IF c = k THEN rest ELSE 0],
     d |-> 10]

SeedDiagonals == {2, 5, 8}
SeedFlows == {0, 2, 5, 8}
SeedRests == {0, 1}

\* one pass of the loop of _enforce_constraints over row i of a seed matrix
EnforceCalls ==
    {[op |-> "_enforce_constraints", i |-> i, row |-> SeedRow(i, diag, j, flow, k, rest)] :
        i \in {QIAN, LI, KUN}, diag \in SeedDiagonals, j \in Elements, flow \in SeedFlows,
        k \in {SHE, HUAN}, rest \in SeedRests}

EnforceConstraintsCall ==
    /\ Pending("_enforce_constraints")
    /\ result' = Return(EnforceRow(call.row, call.i))
    /\ CalcFrame

\* C24 (as claimed): for every seed row with a positive sum, after
\* _enforce_constraints no entry is negative, the diagonal entry is >= 0.5
\* and the row sums to 1 within 1e-6.
C24_RepairAnySeed ==
    (Returned("_enforce_constraints") /\ RowSum(call.row.n) > 0)
    => /\ NonNegative(result.value)
       /\ DiagonalAtLeastHalf(result.value, call.i)
       /\ RowSumsToOne(result.value)

\* ---- chaos_field.py: which strategies an assessed chaos can select ----
\* C26: for every assessment produced by assess_chaos (excitation in
\* [0.05, 1.2]), the strategy _select_kunzhuan_method selects is never
\* emergent_guidance; whenever the type is CREATIVE, primal_realignment is
\* selected.
C26_EmergentUnreachable ==
    (HoldsAssessed /\ lastRecord # None /\ lastRecord.trigger_assessment = current_chaos
     /\ arg.primal_excitation >= 5 /\ arg.primal_excitation <= 120)
    => /\ SelectedStrategy(lastRecord) # "emergent_guidance"
       /\ lastRecord.method_used # MethodDescription("emergent_guidance")
       /\ SelectKunzhuanMethod(current_chaos) # "emergent_guidance"
       /\ current_chaos.chaos_type = CREATIVE
          => SelectedStrategy(lastRecord) = "primal_realignment"

\* C26 witness: an assessed CREATIVE chaos, for which emergent_guidance applies,
\* was handed to perform_kunzhuan and primal_realignment was executed
C26_Witness ==
    /\ HoldsAssessed
    /\ lastRecord # None
    /\ lastRecord.trigger_assessment = current_chaos
    /\ current_chaos.chaos_type = CREATIVE
    /\ Applicability("emergent_guidance", current_chaos)
    /\ SelectedStrategy(lastRecord) = "primal_realignment"

\* ---- models/entities.py and models/life_state.py ----
\* Strengths are in 1/Scale, the excitation capacity, field_cohesion and
\* field_fragmentation in hundredths.
MaxEntityOps == 4

ALIVE == "alive"
DORMANT == "dormant"
EXTINCT == "extinct"

\* Entity.is_alive
is_alive(entity) == entity.life_state = ALIVE

\* PrimalValue.increase
Increase(value, amount) == Min(Scale, value + amount)

\* life_state.check_life_transition_valid (the states of life_state.py; any
\* other old_state has no valid transition)
CheckLifeTransitionValid(old_state, new_state) ==
    CASE old_state = "alive" -> new_state \in {"transitioning", "extinct"}
      [] old_state = "transitioning" -> new_state \in {"alive", "extinct", "pseudo_alive"}
      [] old_state = "pseudo_alive" -> new_state \in {"transitioning", "extinct"}
      [] OTHER -> FALSE

EntityFrame == UNCHANGED <<power_matrices, matrixVars, chaosVars, sourceVars>>

\* Individual.excite_primal
ExcitePrimal(i) ==
    LET me == individuals[i]
        \* excitation = value * capacity, in 1/Scale
        excitation == (me.primal_strength * me.excitation_capacity) \div 100
        new_primal == Increase(me.primal_strength, excitation \div 10)
    IN  /\ steps < MaxEntityOps
        /\ individuals' = [individuals EXCEPT ![i].primal_strength = new_primal]
        /\ call' = [op |-> "excite_primal", entity |-> i]
        /\ result' = Return([entity |-> i, excitation_generated |-> excitation,
                             new_primal |-> new_primal])
        /\ steps' = steps + 1
        /\ UNCHANGED collective
        /\ EntityFrame

\* Individual.pursue_targets
PursueTargets(i) ==
    /\ steps < MaxEntityOps
    /\ call' = [op |-> "pursue_targets", entity |-> i]
    /\ result' = Return([k \in 1..Len(individuals[i].current_targets) |->
                            [type |-> individuals[i].current_targets[k].type,
                             target |-> "",
                             status |-> "pursuing"]])
    /\ steps' = steps + 1
    /\ UNCHANGED <<individuals, collective>>
    /\ EntityFrame

\* Individual.check_survival
CheckSurvival(i) ==
    /\ steps < MaxEntityOps
    /\ IF individuals[i].primal_strength <= Scale \div 10
       THEN /\ individuals' = [individuals EXCEPT ![i].life_state = EXTINCT]
            /\ result' = Return([alive |-> FALSE, reason |-> "primal_depletion"])
       ELSE /\ individuals' = individuals
            /\ result' = Return([alive |-> TRUE])
    /\ call' = [op |-> "check_survival", entity |-> i]
    /\ steps' = steps + 1
    /\ UNCHANGED collective
    /\ EntityFrame

\* eliminate without the test of is_alive
EliminateOutcome_NoGuard(self, other, reason) ==
    LET target == [type |-> "elimination", target |-> other, reason |-> reason,
                   justification |-> "primal_excitation_maximization"]
        appended == [individuals EXCEPT ![self].current_targets = Append(@, target)]
    IN  [individuals |-> [appended EXCEPT ![other].life_state = EXTINCT],
         returned |-> [success |-> TRUE, eliminator |-> self, eliminated |-> other,
                       reason |-> reason, as_target_pursuit |-> TRUE,
                       type |-> "elimination", eliminated_entity |-> other,
                       justification |-> "primal_excitation_maximization",
                       target_based |-> TRUE]]

\* Individual.eliminate: the individuals after the call and what it returns
EliminateOutcome(self, other, reason) ==
    IF ~is_alive(individuals[self]) \/ ~is_alive(individuals[other])
    THEN [individuals |-> individuals,
          returned |-> [success |-> FALSE, reason |-> "not_excitable"]]
    ELSE LET target == [type |-> "elimination", target |-> other, reason |-> reason,
                        justification |-> "primal_excitation_maximization"]
             appended == [individuals EXCEPT ![self].current_targets = Append(@, target)]
         IN  [individuals |-> [appended EXCEPT ![other].life_state = EXTINCT],
              returned |-> [success |-> TRUE, eliminator |-> self, eliminated |-> other,
                            reason |-> reason, as_target_pursuit |-> TRUE,
                            type |-> "elimination", eliminated_entity |-> other,
                            justification |-> "primal_excitation_maximization",
                            target_based |-> TRUE]]

Eliminate(self, other, reason) ==
    LET outcome == EliminateOutcome(self, other, reason)
    IN  /\ steps < MaxEntityOps
        /\ individuals' = outcome.individuals
        /\ call' = [op |-> "eliminate", entity |-> self, other |-> other, reason |-> reason]
        /\ result' = Return(outcome.returned)
        /\ steps' = steps + 1
        /\ UNCHANGED collective
        /\ EntityFrame

\* Collective.construct_target
ConstructTarget(target_content) ==
    LET target == [type |-> "collective", content |-> target_content,
                   constructors |-> collective.members, timestamp |-> 0]
        isMember(i) == \E k \in 1..Len(collective.members) : collective.members[k] = i
    IN  /\ steps < MaxEntityOps
        /\ collective' = [collective EXCEPT !.collective_targets = Append(@, target)]
        \* increase = 0.05 * member.excitation_capacity
        /\ individuals' =
               [i \in DOMAIN individuals |->
                   IF isMember(i)
                   THEN [individuals[i] EXCEPT !.primal_strength =
                            Increase(@, 5 * individuals[i].excitation_capacity)]
                   ELSE individuals[i]]
        /\ call' = [op |-> "construct_target", target_content |-> target_content]
        /\ result' = Return([collective |-> "c", target |-> target,
                             field_cohesion_increase |-> 10, primal_boost |-> TRUE])
        /\ steps' = steps + 1
        /\ EntityFrame

\* the list without its element at the (0-based) index: list.pop(index)
Pop(list, index) == SubSeq(list, 1, index) \o SubSeq(list, index + 2, Len(list))

\* Collective.lose_target
LoseTarget(target_index) ==
    /\ steps < MaxEntityOps
    /\ IF 0 <= target_index /\ target_index < Len(collective.collective_targets)
       THEN LET lost_target == collective.collective_targets[target_index + 1]
                field_cohesion == collective.field_cohesion - 20
                field_fragmentation == collective.field_fragmentation + 30
            IN  /\ collective' =
                       [collective EXCEPT
                           !.collective_targets = Pop(@, target_index),
                           !.field_cohesion = field_cohesion,
                           !.field_fragmentation = field_fragmentation]
                /\ result' = Return([event |-> "target_lost", collective |-> "c",
                                     lost_target |-> lost_target,
                                     field_cohesion |-> field_cohesion,
                                     field_fragmentation |-> field_fragmentation,
                                     kunzhuan_risk |->
                                         IF field_cohesion < 40 THEN "high" ELSE "medium"])
       ELSE /\ collective' = collective
            /\ result' = Return([event |-> "no_such_target"])
    /\ call' = [op |-> "lose_target", target_index |-> target_index]
    /\ steps' = steps + 1
    /\ UNCHANGED individuals
    /\ EntityFrame

\* an Individual as its dataclass builds it, given a strength and a life state
NewIndividual(primal, life_state) ==
    [life_state |-> life_state, primal_strength |-> primal, excitation_capacity |-> 70,
     current_targets |-> <<>>]

IndividualIds == {"a", "b"}

(***************************************************************************)
(* Two individuals and any sequence of their operations.                   *)
(***************************************************************************)
IndividualInit ==
    /\ MatrixInit
    /\ ChaosIdle
    /\ CalcIdle
    /\ SourceIdle
    /\ collective = None
    /\ steps = 0
    /\ individuals \in [IndividualIds ->
                           {NewIndividual(500, ALIVE), NewIndividual(5000, ALIVE),
                            NewIndividual(5000, DORMANT)}]

IndividualNext ==
    \/ \E i \in IndividualIds : ExcitePrimal(i)
    \/ \E i \in IndividualIds : PursueTargets(i)
    \/ \E i \in IndividualIds : CheckSurvival(i)
    \/ \E i \in IndividualIds, j \in IndividualIds : Eliminate(i, j, "threat")

IndividualSpec == IndividualInit /\ [][IndividualNext]_vars

(***************************************************************************)
(* A collective with one member, its targets constructed and lost.         *)
(***************************************************************************)
\* a target the collective was constructed with
GivenTarget == [type |-> "collective", content |-> "given"]

CollectiveInit ==
    /\ MatrixInit
    /\ ChaosIdle
    /\ CalcIdle
    /\ SourceIdle
    /\ steps = 0
    /\ individuals = [i \in {"a"} |-> NewIndividual(5000, ALIVE)]
    /\ \E cohesion \in {0, 60, 100}, fragmentation \in {0, 20, 100},
          targets \in {<<>>, <<GivenTarget, GivenTarget, GivenTarget>>} :
           collective = [members |-> <<"a">>, collective_targets |-> targets,
                         field_cohesion |-> cohesion,
                         field_fragmentation |-> fragmentation]

CollectiveNext ==
    \/ \E target_content \in {"t1", "t2"} : ConstructTarget(target_content)
    \/ \E target_index \in -1..3 : LoseTarget(target_index)

CollectiveSpec == CollectiveInit /\ [][CollectiveNext]_vars

\* C27 (as claimed): starting from a Collective with field_cohesion and
\* field_fragmentation in [0,1], after any sequence of construct_target and
\* lose_target calls both values are still in [0,1].
C27_FieldValuesInDomain ==
    collective # None =>
        /\ collective.field_cohesion >= 0 /\ collective.field_cohesion <= 100
        /\ collective.field_fragmentation >= 0 /\ collective.field_fragmentation <= 100

\* C28: once an Individual is EXTINCT no entity operation changes its life
\* state (and check_life_transition_valid allows no transition from EXTINCT);
\* eliminate called with an extinct eliminator or an extinct target returns
\* success = false, changes no life state and adds no target.
C28_ExtinctionIrreversible ==
    [][/\ \A i \in DOMAIN individuals :
              individuals[i].life_state = EXTINCT
              => /\ individuals'[i].life_state = EXTINCT
                 /\ \A s \in {"alive", "transitioning", "pseudo_alive", "extinct", "dormant"} :
                        ~CheckLifeTransitionValid(individuals[i].life_state, s)
       /\ (/\ steps' = steps + 1
           /\ call'.op = "eliminate"
           /\ \/ individuals[call'.entity].life_state = EXTINCT
              \/ individuals[call'.other].life_state = EXTINCT)
          => /\ result'.value.success = FALSE
             /\ \A i \in DOMAIN individuals :
                    /\ individuals'[i].life_state = individuals[i].life_state
                    /\ individuals'[i].current_targets = individuals[i].current_targets]_vars

\* C28 witness: b was eliminated, then excited and checked, and its own
\* eliminate call against the living a has just been refused
C28_Witness ==
    /\ call # None
    /\ call.op = "eliminate"
    /\ call.entity = "b" /\ call.other = "a"
    /\ individuals["b"].life_state = EXTINCT
    /\ individuals["b"].primal_strength > 5000
    /\ individuals["a"].life_state = ALIVE
    /\ Len(individuals["a"].current_targets) = 1
    /\ individuals["b"].current_targets = <<>>
    /\ result.value.success = FALSE

\* ---- target_field.py: _handle_elimination_pursuit ----
\* No class of the repository defines get_primal_strength or eliminate_target,
\* so both hasattr tests fail (the strengths are 0.5) and the call of
\* agent.eliminate_target raises AttributeError.  What the method returns, or
\* the exception that leaves it:
HandleEliminationPursuit(agent_type, reason, target_factor) ==
    LET agent_primal == 50
        target_primal == 50
        has_collective_benefit == agent_type = "Collective"
        justification ==
            ComputeEliminationJustification(agent_type, reason, agent_primal,
                                            target_primal, has_collective_benefit)
    IN  IF ~justification.justified
        THEN [success |-> FALSE, reason |-> "elimination_not_justified",
              justification |-> [score |-> justification.score,
                                 threshold |-> justification.threshold,
                                 components |-> justification.components]]
        ELSE [raised |-> "AttributeError", attribute |-> "eliminate_target",
              justification |-> [score |-> justification.score,
                                 threshold |-> justification.threshold,
                                 components |-> justification.components]]

EliminationPursuitCalls ==
    [op : {"_handle_elimination_pursuit"}, agent_type : {"Individual", "Collective"},
     reason : ReasonTexts, target_factor : {5000, 8000, 10000}]

HandleEliminationPursuitCall ==
    /\ Pending("_handle_elimination_pursuit")
    /\ result' = Return(HandleEliminationPursuit(call.agent_type, call.reason,
                                                 call.target_factor))
    /\ CalcFrame

\* the method returned through its refusal branch
RefusedAsNotJustified(returned) ==
    "reason" \in DOMAIN returned /\ returned.reason = "elimination_not_justified"

\* C29: with the default configuration, for every reason text, agent type,
\* collective-benefit flag and strengths in [0,1],
\* compute_elimination_justification returns justified = true (score > 0.6),
\* and _handle_elimination_pursuit never returns elimination_not_justified.
C29_AlwaysJustified ==
    /\ (Returned("compute_elimination_justification")
        /\ call.agent_primal \in 0..100 /\ call.target_primal \in 0..100)
       => /\ result.value.justified
          /\ result.value.score > 6000
          /\ result.value.threshold = 6000
    /\ Returned("_handle_elimination_pursuit") => ~RefusedAsNotJustified(result.value)

\* C29 witness: the weakest case (no keyword, an individual, no collective
\* benefit, both strengths 0) has been computed and scores the base 0.8
C29_Witness ==
    /\ Returned("compute_elimination_justification")
    /\ call.agent_type = "Individual"
    /\ ~call.has_collective_benefit
    /\ call.agent_primal = 0 /\ call.target_primal = 0
    /\ HasNoKeyword(call.reason)
    /\ result.value.justified
    /\ result.value.score = 8000

\* ---- chaos_field.py: the breach count against the classification ----
\* C30: with min_conditions = 3, for every assessment produced by
\* assess_chaos, whenever at least 3 of the 4 thresholds are breached the
\* type is PRIMAL and the urgency is 1.0, so check_kunzhuan_required already
\* requires the transition on the assessment's own account.
C30_BreachCountNeverAlone ==
    (HoldsAssessed
     /\ BreachCount(current_chaos.field_state) >= kunzhuan_thresholds.min_conditions)
    => /\ current_chaos.chaos_type = PRIMAL
       /\ current_chaos.guidance_urgency = Urg(100)
       /\ requires_kunzhuan(current_chaos)
       /\ lastCheck # None
          => /\ lastCheck.conditions_met = BreachCount(current_chaos.field_state)
             /\ lastCheck.conditions_met >= lastCheck.min_conditions
             /\ lastCheck.assessment_based
             /\ lastCheck.requires_kunzhuan

\* C30 witness: exactly three thresholds are breached, cohesion is the one that
\* is not, and the check has been made
C30_Witness ==
    /\ HoldsAssessed
    /\ lastCheck # None
    /\ lastCheck.conditions_met = 3
    /\ current_chaos.field_state.cohesion >= 30
    /\ current_chaos.chaos_type = PRIMAL
    /\ current_chaos.guidance_urgency = Urg(100)

\* ---- the specification of the calculators ----
\* the calls that do not read the matrix
FormulaCalls ==
    UrgencyCalls \cup EliminationCalls \cup TargetFactorCalls \cup PossibilityCalls
    \cup PackageCalls \cup ExcitationCalls \cup EliminationPursuitCalls
    \cup EnforceCalls

\* the calls of the IndirectInfluenceCalculator
IndirectCalls == TotalInfluenceCalls

\* a DataSource on the constructed matrix, or an IndirectInfluenceCalculator
\* built on the reshaped one
CalcInit ==
    /\ ChaosIdle
    /\ SourceIdle
    /\ EntityIdle
    /\ result = None
    /\ \/ /\ MatrixInit
          /\ power_matrices = ComputePowerMatrices(NewFundamentalFlowMatrix)
          /\ call \in FormulaCalls \cup IndirectCalls
       \/ /\ matrix = ReshapedMatrix
          /\ setCount = 2
          /\ lastSet = [source |-> SAN, target |-> QIAN, value |-> Quarter]
          /\ flowRead = None
          /\ power_matrices = ComputePowerMatrices(ReshapedMatrix)
          /\ call \in IndirectCalls

CalcNext ==
    \/ CalculateGuidanceUrgencyCall
    \/ ComputeEliminationJustificationCall
    \/ ComputeTargetFactorCall
    \/ ComputePossibilitySpaceCall
    \/ ComputeTotalInfluenceCall
    \/ PackageResultCall
    \/ ComputePrimalExcitationCall
    \/ HandleEliminationPursuitCall
    \/ EnforceConstraintsCall

CalcSpec == CalcInit /\ [][CalcNext]_vars

====
